---- MODULE Spec2Model ----
(***************************************************************************)
(* The agent execution core of agenix, in parts.                           *)
(*                                                                         *)
(* Spec: the turn loop of Agent.prompt (src/agenix/core/agent.py).  One    *)
(* behaviour is one Agent instance: its configuration is fixed at          *)
(* construction, prompt() appends the user message and runs _run_loop,     *)
(* which per turn streams one assistant message from the provider,         *)
(* executes its tool calls one after the other and decides whether to go   *)
(* on.  The provider and the tools are the environment: each step draws    *)
(* what they do from the sets below.                                       *)
(*                                                                         *)
(* SpecSession: the same agent, prompted again when a prompt is exhausted. *)
(*                                                                         *)
(* SpecObserve: the same agent with callbacks subscribed to its events     *)
(* before the prompt (Agent.subscribe, Agent._emit).                       *)
(*                                                                         *)
(* SpecEmit: ExtensionRunner.emit (src/agenix/extensions/runner.py), the   *)
(* dispatch of one event after the other to the handlers that the loaded   *)
(* extensions registered.  The handlers are the environment.               *)
(*                                                                         *)
(* SpecStream: the stream normalizers OpenAIProvider.stream and            *)
(* AnthropicProvider.stream (src/agenix/core/llm.py), which turn the raw   *)
(* chunks of a backend into StreamEvents.  The backend is the environment. *)
(*                                                                         *)
(* SpecCollect: Agent._stream_llm_response, which assembles one assistant  *)
(* message from the StreamEvents of a provider, one event at a time.       *)
(*                                                                         *)
(* SpecCallers: the callers of prompt() on the session's agent (the CLI,   *)
(* the cron job callback, the heartbeat callback), each run suspended      *)
(* where prompt() awaits the provider or a tool.                           *)
(***************************************************************************)
EXTENDS Integers, Sequences, FiniteSets, TLC

\* ------------------------------------------------------------------ bounds
\* Longest tool_calls list the provider puts in one assistant message.
MaxCalls == 2
\* Stream events (text, reasoning, tool calls, finish reasons) the provider
\* emits in the course of one prompt().
MaxStreamEvents == 3
\* Handlers the extensions of one session register in all.
MaxHandlers == 3
\* Raw chunks (events) the backend sends in one provider stream.
MaxChunks == 3
\* on_update calls of one tool execution
MaxUpdates == 1
\* Stream events _stream_llm_response reads from one provider stream.
MaxDeltas == 3
\* Callbacks subscribed to one agent.
MaxSubscribers == 2
\* prompt() calls on one agent.
MaxPrompts == 2
\* Messages of a history handed to compact_messages.
MaxHistory == 4
\* Events emitted to the subscribers of one agent.
MaxEmits == 2
\* Events published to the message bus.
MaxPublished == 2
\* Callbacks subscribed to the message bus.
MaxBusSubscribers == 2

\* ------------------------------------------------------- program constants
\* _should_continue_loop stops once consecutive_errors reaches this value.
MaxConsecutiveErrors == 3

\* AgentConfig.max_turns: every value up to the first one above the error
\* threshold, where the error stop and the turn bound come apart.
MaxTurnsValues == 1..(MaxConsecutiveErrors + 1)
\* AgentConfig, as <<max_turns, max_tool_calls_per_turn>>: every max_turns
\* with one tool call fewer a turn than a response may hold, and two turns
\* with room for every tool call of a response.
AgentConfigs ==
  {<<t, MaxCalls - 1>> : t \in MaxTurnsValues}
  \cup {<<MaxConsecutiveErrors - 1, MaxCalls>>}

\* ------------------------------------------------------------ tool calls
\* Agent.tool_map: the names a tool is registered under.
tool_map == {"read"}
\* Names a model may ask for: a registered one and one that is not.
ToolNames == {"read", "ghost"}

\* A Python value in ToolCall.arguments, by its type and its len():
\* a one-key dict, the empty dict, and a non-empty str (not a mapping).
DictArgs == [type |-> "dict", len |-> 1]
EmptyDict == [type |-> "dict", len |-> 0]
StrArgs == [type |-> "str", len |-> 3]
ArgValues == {DictArgs, EmptyDict, StrArgs}

\* bool(v) for a dict or a str: non-empty.
Truthy(v) == v.len > 0
\* isinstance(v, dict)
IsDict(v) == v.type = "dict"

\* A check that lets every non-empty value through, mapping or not.
InvalidArgumentsFalsyOnly(arguments) == ~Truthy(arguments)

\* The keys of a value in ToolCall.arguments: the one key of the one-key
\* dict is an optional parameter of the read tool.
Keys(v) == IF IsDict(v) /\ v.len = 1 THEN {"offset"} ELSE {}
\* parameters["required"] of the registered tool (ReadTool).
Required == <<"file_path">>
\* Tool.validate_arguments(arguments): the message of the ValueError it
\* raises for the first required field that is missing, "" when it returns.
ValidateArguments(arguments) ==
  IF \A i \in DOMAIN Required : Required[i] \in Keys(arguments) THEN ""
  ELSE "Missing required argument: file_path"

\* A check that also validates the arguments against the tool's schema.
InvalidArgumentsOrMissing(arguments) ==
  ~Truthy(arguments) \/ ~IsDict(arguments) \/ ValidateArguments(arguments) # ""

\* The guard of the invalid-arguments branch of _run_loop.
InvalidArguments(arguments) == ~Truthy(arguments) \/ ~IsDict(arguments)

ToolCall(id, name, arguments) == [id |-> id, name |-> name, arguments |-> arguments]

\* What a registered tool's execute does: return a ToolResult (is_error false
\* or true) or raise an exception.
ToolOutcomes == {"ok", "error", "raise"}
ExceptionMessage == "disk full"

\* ------------------------------------------------------------- messages
NoCalls == <<>>

UserMessage(content) ==
  [role |-> "user", content |-> content, tool_calls |-> NoCalls,
   stop_reason |-> "", tool_call_id |-> <<>>, name |-> "", is_error |-> FALSE]

AssistantMessage(content, tool_calls, stop_reason) ==
  [role |-> "assistant", content |-> content, tool_calls |-> tool_calls,
   stop_reason |-> stop_reason, tool_call_id |-> <<>>, name |-> "", is_error |-> FALSE]

ToolResultMessage(tool_call_id, name, content, is_error) ==
  [role |-> "tool", content |-> content, tool_calls |-> NoCalls,
   stop_reason |-> "", tool_call_id |-> tool_call_id, name |-> name,
   is_error |-> is_error]

\* The f-strings of the three error results, as their pieces.
InvalidArgumentsContent(name) ==
  <<"Error: Tool '", name, "' called with invalid arguments. ">>
NotFoundContentAnonymous(name) == <<"Error: Tool not found">>
NotFoundContent(name) == <<"Error: Tool '", name, "' not found">>
ExceptionContent(e) == <<"Error executing tool: ", e>>

\* assistant content blocks
TextContent(text) == [type |-> "text", text |-> text]
ReasoningContent(text, reasoning_id) ==
  [type |-> "reasoning", text |-> text, reasoning_id |-> reasoning_id]
\* str(e) of a provider failure, as the error message's text
ErrorText == "Error: connection lost"
\* text.strip()
Strip(text) == IF text = " " THEN "" ELSE text

\* ------------------------------------------------------ provider streams
\* Text the provider streams in a turn: none, white space only, or words.
Texts == {"", " ", "Hello"}
\* The provider's finish event: none, or a reason.
FinishReasons == {"", "length"}
\* Reasoning the provider streams in a turn, in one block without an id:
\* none, or a thought.
Reasonings == {"", "Hmm"}
NoStream ==
  [text |-> "", reasoning |-> "", tool_calls |-> NoCalls, finish_reason |-> "",
   fails |-> FALSE]

Min(a, b) == IF a < b THEN a ELSE b

\* The (name, arguments) pairs a model may ask for: the registered tool with
\* each kind of arguments, and the unregistered name with arguments that pass
\* the check (other arguments never reach the lookup of the name).
ToolCallShapes ==
  { sh \in [name : ToolNames, arguments : ArgValues] :
      sh.name \in tool_map \/ sh.arguments = DictArgs }

\* The tool_calls lists of n calls a provider may return in turn t; the id of
\* a call is its turn and position, unique within the prompt.
ToolCallLists(t, n) ==
  { [i \in 1..n |-> ToolCall(<<t, i>>, sh[i].name, sh[i].arguments)] :
      sh \in [1..n -> ToolCallShapes] }

\* The stream events a provider stream consists of, counted.
StreamCost(s) ==
  Len(s.tool_calls) + (IF s.text # "" THEN 1 ELSE 0)
  + (IF s.reasoning # "" THEN 1 ELSE 0)
  + (IF s.finish_reason # "" THEN 1 ELSE 0)

\* What the provider may stream in turn t with `budget` stream events left:
\* text, reasoning, tool calls, a finish reason, and whether the stream
\* raises before its end.
ProviderStreams(t, budget) ==
  { s \in UNION { [text : Texts, reasoning : Reasonings,
                   tool_calls : ToolCallLists(t, n),
                   finish_reason : FinishReasons, fails : BOOLEAN] :
                  n \in 0..Min(MaxCalls, budget) } :
      StreamCost(s) <= budget }

\* ----------------------------------------------------------- loop state
LoopState ==
  [turn |-> 0, total_tool_calls |-> 0, consecutive_errors |-> 0,
   last_action |-> "", has_made_progress |-> FALSE]

\* --------------------------------------------------------------- events
Event(type, tool_call_id, tool_name, is_error) ==
  [type |-> type, tool_call_id |-> tool_call_id, tool_name |-> tool_name,
   is_error |-> is_error]
Plain(type) == Event(type, <<>>, "", FALSE)

\* ------------------------------------------------------ extension pipeline
\* Two members of EventType: the class of a "tool_call" event derives from
\* CancellableEvent (ToolCallEvent), that of a "session_start" event from
\* Event (SessionStartEvent).
EventTypes == {"tool_call", "session_start"}
\* hasattr(event, 'cancelled')
HasCancelled(type) == type = "tool_call"

\* What a handler does when it is awaited with an event: it leaves its mark
\* in the event's mutable payload, it may call event.cancel(), and it may
\* raise afterwards (as on_tool_call of the safety extension does when
\* ctx.notify fails after event.cancel()).  Handlers of an event without
\* cancel() never call it.
HandlersFor(type) ==
  [type : {type}, cancels : IF HasCancelled(type) THEN BOOLEAN ELSE {FALSE},
   raises : BOOLEAN]
Handlers == UNION {HandlersFor(type) : type \in EventTypes}

\* A loaded extension: its name and its api.on(event_type, handler) calls, in
\* the order setup() made them.
LoadedExtension(name, on) == [name |-> name, on |-> on]
\* A dispatch that takes the newest handler of an extension first.
GetHandlersNewestFirst(extension, type) ==
  LET n == Len(extension.on) IN
  SelectSeq([i \in 1..n |-> n + 1 - i], LAMBDA i : extension.on[i].type = type)

\* ext.handlers.get(event_type, []): api.on appends to handlers[event_type],
\* so the list holds the handlers of that type in registration order.  A
\* handler is named by its place among the api.on calls of its extension.
GetHandlers(extension, type) ==
  SelectSeq([i \in 1..Len(extension.on) |-> i],
            LAMBDA i : extension.on[i].type = type)

\* The extension lists a session can load: two extensions that register up
\* to MaxHandlers handlers between them.
Registrations ==
  UNION {
    {<<LoadedExtension("safety", a), LoadedExtension("plan_mode", b)>> :
       a \in [1..n[1] -> Handlers], b \in [1..n[2] -> Handlers]} :
    n \in {m \in (0..MaxHandlers) \X (0..MaxHandlers) : m[1] + m[2] <= MaxHandlers}}

\* The session of the turn loop below: the safety extension with its
\* on_tool_call handler, which vetoes.
SafetyOnly ==
  <<LoadedExtension("safety",
      <<[type |-> "tool_call", cancels |-> TRUE, raises |-> FALSE]>>)>>

NoEvent == [type |-> "", tool_name |-> "", cancelled |-> FALSE, data |-> <<>>]
\* ToolCallEvent(tool_name, args); cancelled is the dataclass default.
ToolCallEvent(tool_name) ==
  [type |-> "tool_call", tool_name |-> tool_name, cancelled |-> FALSE,
   data |-> <<>>]
\* SessionStartEvent(): an Event, without a cancelled attribute (the field
\* stays FALSE and HasCancelled says it is absent).
SessionStartEvent ==
  [type |-> "session_start", tool_name |-> "", cancelled |-> FALSE,
   data |-> <<>>]
\* hasattr(event, 'cancelled') and event.cancelled
IsCancelled(e) == HasCancelled(e.type) /\ e.cancelled

\* ---------------------------------------------------------- subscribers
\* A callback given to subscribe(): whether it raises when it is called.
Callback(raises) == [raises |-> raises]
Callbacks == {Callback(FALSE), Callback(TRUE)}

\* One call of a callback: the event, and how many events prompt() had
\* yielded to its caller when the callback ran.
Delivery(e, n) == [event |-> e, yielded |-> n]

\* ------------------------------------------------------------ variables
VARIABLES
  max_turns,                \* config.max_turns
  max_tool_calls_per_turn,  \* config.max_tool_calls_per_turn
  messages,                 \* Agent.messages, the conversation history
  loop_state,               \* Agent.loop_state
  pc,                       \* where prompt() stands
  turn,                     \* the loop variable of `for turn in range(max_turns)`
  assistant_message,        \* the turn's finalized assistant message
  call_index,               \* position in assistant_message.tool_calls[:max]
  tool_results,             \* the turn's tool_results list
  error_count,              \* the turn's error_count
  events,                   \* the events prompt() has yielded
  executed,                 \* the calls of Tool.execute, in order
  stream,                   \* what the provider streamed in this turn
  events_left               \* stream events the provider may still emit

\* The extension pipeline (src/agenix/extensions/runner.py).
VARIABLES
  extensions,               \* ExtensionRunner.extensions, fixed at load time
  event,                    \* the event ExtensionRunner.emit is dispatching
  emit_pc,                  \* where emit() stands
  ext,                      \* position of `for ext in self.extensions`
  handler,                  \* position of `for handler in handlers`
  invoked,                  \* the handler starts and ends of this emit()
  returned                  \* the event the previous emit() returned

\* The stream normalizers (src/agenix/core/llm.py).
VARIABLES
  provider,                 \* which LLMProvider.stream runs
  stream_pc,                \* where stream() stands
  accumulator,              \* tool_calls_accumulator / tool_calls_map
  reasoning_buffer,         \* AnthropicProvider's reasoning_buffer
  finish_reason,            \* the completion signal captured so far
  yielded,                  \* the StreamEvents stream() has yielded
  chunks_left,              \* raw chunks the backend may still send
  received                  \* the tool-call deltas the backend has sent

\* The subscribers of the agent's events (Agent.subscribe, Agent._emit).
VARIABLES
  subscribers,              \* Agent.subscribers, the callbacks in subscription order
  delivered,                \* per subscriber, the events its callback was called with
  printed                   \* the "Error in event subscriber" lines printed

\* One run of _stream_llm_response, stream event by stream event
\* (src/agenix/core/agent.py).
VARIABLES
  collect_pc,               \* where _stream_llm_response stands
  text_parts,               \* text_parts
  tool_calls_list,          \* tool_calls_list
  reasoning_parts,          \* reasoning_parts, a dict in insertion order
  captured_finish_reason,   \* the local finish_reason
  working_message,          \* the AssistantMessage being assembled
  consumed,                 \* the StreamEvents read from the provider so far
  message_events,           \* the events _stream_llm_response has yielded
  deltas_left               \* stream events the provider may still send

\* The callers of prompt() on one shared Agent (src/agenix/ui/cli.py,
\* src/agenix/extensions/builtin/cron, src/agenix/extensions/builtin/heartbeat).
VARIABLES
  runs,                     \* per caller, where its prompt() run stands
  owners                    \* per history entry, the run that appended it

\* compact_messages (src/agenix/core/compaction.py), called with the history
\* in `messages`
VARIABLES
  compacted                 \* the list compact_messages returned, <<>> before the call

\* The functions Agent.subscribe has returned (src/agenix/core/agent.py)
VARIABLES
  unsubscribe               \* per subscribe() call, the callback its lambda removes

\* The message bus (src/agenix/bus/bus.py)
VARIABLES
  bus_subscribers,          \* MessageBus._subscribers: event kind -> callbacks
  subscriptions,            \* what the subscribe and unsubscribe calls registered
  queue,                    \* MessageBus.queue, the kinds of the pending events
  awaited,                  \* the callbacks the latest dispatch has awaited
  published                 \* how many events have been published

agent ==
  <<max_turns, max_tool_calls_per_turn, messages, loop_state, pc, turn,
    assistant_message, call_index, tool_results, error_count, events,
    executed, stream, events_left>>

pipeline == <<extensions, event, emit_pc, ext, handler, invoked, returned>>

normalizer ==
  <<provider, stream_pc, accumulator, reasoning_buffer, finish_reason,
    yielded, chunks_left, received>>

observers == <<subscribers, delivered, printed>>

collector ==
  <<collect_pc, text_parts, tool_calls_list, reasoning_parts,
    captured_finish_reason, working_message, consumed, message_events, deltas_left>>

callers == <<runs, owners>>

compaction == <<compacted>>

handles == <<unsubscribe>>

bus == <<bus_subscribers, subscriptions, queue, awaited, published>>

vars == <<agent, pipeline, normalizer, observers, collector, callers, compaction, handles, bus>>

config == <<max_turns, max_tool_calls_per_turn>>

\* ExtensionRunner(extensions, context), before any emit().
PipelineIdle ==
  /\ event = NoEvent
  /\ emit_pc = "idle"
  /\ ext = 1
  /\ handler = 1
  /\ invoked = <<>>
  /\ returned = NoEvent

\* No provider stream is open.
NormalizerIdle ==
  /\ provider = ""
  /\ stream_pc = "idle"
  /\ accumulator = <<>>
  /\ reasoning_buffer = <<>>
  /\ finish_reason = ""
  /\ yielded = <<>>
  /\ chunks_left = 0
  /\ received = <<>>

\* Agent(config, tools) after __init__.
AgentConstructed ==
  /\ messages = <<>>
  /\ loop_state = LoopState
  /\ pc = "idle"
  /\ turn = 0
  /\ assistant_message = AssistantMessage(<<>>, NoCalls, "")
  /\ call_index = 1
  /\ tool_results = <<>>
  /\ error_count = 0
  /\ events = <<>>
  /\ executed = <<>>
  /\ stream = NoStream
  /\ events_left = MaxStreamEvents
  /\ subscribers = <<>>
  /\ delivered = <<>>
  /\ printed = 0

\* _stream_llm_response is not running.
CollectorIdle ==
  /\ collect_pc = "idle"
  /\ text_parts = <<>>
  /\ tool_calls_list = <<>>
  /\ reasoning_parts = <<>>
  /\ captured_finish_reason = ""
  /\ working_message = AssistantMessage(<<>>, NoCalls, "")
  /\ consumed = <<>>
  /\ message_events = <<>>
  /\ deltas_left = 0

\* No caller has called prompt().
CallersIdle ==
  /\ runs = <<>>
  /\ owners = <<>>

\* compact_messages has not been called.
CompactionIdle ==
  /\ compacted = <<>>

\* subscribe() has returned no unsubscribe function.
HandlesIdle ==
  /\ unsubscribe = <<>>

\* A MessageBus as __init__ leaves it.
BusIdle ==
  /\ bus_subscribers = [event_kind \in {} |-> <<>>]
  /\ subscriptions = [event_kind \in {} |-> <<>>]
  /\ queue = <<>>
  /\ awaited = <<>>
  /\ published = 0

\* An agent of any configuration, in a session that loaded the safety
\* extension.  Agent holds no reference to the ExtensionRunner.
Init ==
  /\ \E c \in AgentConfigs :
       max_turns = c[1] /\ max_tool_calls_per_turn = c[2]
  /\ AgentConstructed
  /\ extensions = SafetyOnly
  /\ PipelineIdle
  /\ NormalizerIdle
  /\ CollectorIdle
  /\ CallersIdle
  /\ BusIdle
  /\ HandlesIdle
  /\ CompactionIdle

\* A loop that runs one iteration too many.
ForLoopInclusive(t) == IF t <= max_turns THEN "turn_start" ELSE "agent_end"

\* for turn in range(max_turns): the next iteration, or the end of the loop.
ForLoop(t) == IF t < max_turns THEN "turn_start" ELSE "agent_end"

\* A dispatch that a raising callback ends: the callbacks subscribed after
\* it are not called.
EmitToSubscribersRaiseEnds(ds) ==
  /\ delivered' =
       [i \in DOMAIN delivered |->
          IF \E j \in 1..(i - 1) : subscribers[j].raises
          THEN delivered[i] ELSE delivered[i] \o ds]
  /\ printed' = printed

\* Agent._emit, for each of the deliveries ds in turn: every callback is
\* called with the event, in subscription order; what a callback raises is
\* caught and printed.
EmitToSubscribers(ds) ==
  /\ delivered' = [i \in DOMAIN delivered |-> delivered[i] \o ds]
  /\ printed' =
       printed + Len(ds) * Cardinality({i \in DOMAIN subscribers : subscribers[i].raises})

\* An event that reaches the callbacks only after it has been yielded.
YieldThenEmit(es) ==
  /\ events' = events \o es
  /\ EmitToSubscribers([k \in 1..Len(es) |-> Delivery(es[k], Len(events) + k)])

\* self._emit(e); yield e, for each event of es in turn: an event reaches
\* the callbacks when the events before it have been yielded.
Yield(es) ==
  /\ events' = events \o es
  /\ EmitToSubscribers([k \in 1..Len(es) |-> Delivery(es[k], Len(events) + k - 1)])

\* A run that goes on with the loop state the run before it left.
RunLoopHeadKeepsState ==
  /\ messages' = Append(messages, UserMessage("question"))
  /\ Yield(<<Plain("agent_start")>>)
  /\ loop_state' = loop_state
  /\ turn' = 0
  /\ pc' = ForLoop(0)
  /\ UNCHANGED <<pipeline, normalizer, collector, callers, compaction, handles, bus>>
  /\ UNCHANGED <<config, assistant_message, call_index, tool_results,
                 error_count, executed, stream, events_left, subscribers>>

\* prompt(): append the user message, then _run_loop up to its first turn:
\* AgentStart is yielded and the loop state is reset.
RunLoopHead ==
  /\ messages' = Append(messages, UserMessage("question"))
  /\ Yield(<<Plain("agent_start")>>)
  /\ loop_state' = LoopState
  /\ turn' = 0
  /\ pc' = ForLoop(0)
  /\ UNCHANGED <<pipeline, normalizer, collector, callers, compaction, handles, bus>>
  /\ UNCHANGED <<config, assistant_message, call_index, tool_results,
                 error_count, executed, stream, events_left, subscribers>>

\* The first prompt() of an agent.
Prompt ==
  /\ pc = "idle"
  /\ RunLoopHead

\* The head of one iteration: loop_state.turn = turn, TurnStart is yielded.
TurnStart ==
  /\ pc = "turn_start"
  /\ loop_state' = [loop_state EXCEPT !.turn = turn]
  /\ Yield(<<Plain("turn_start")>>)
  /\ pc' = "stream"
  /\ UNCHANGED <<pipeline, normalizer, collector, callers, compaction, handles, bus>>
  /\ UNCHANGED <<config, messages, turn, assistant_message, call_index,
                 tool_results, error_count, executed, stream, events_left,
                 subscribers>>

\* reasoning_block_id or "default"
DefaultReasoningId == "default"

\* content_list of a stream that ended: the reasoning block, then the text.
ContentList(s) ==
  (IF s.reasoning # "" THEN <<ReasoningContent(s.reasoning, DefaultReasoningId)>>
   ELSE <<>>)
  \o (IF s.text # "" THEN <<TextContent(s.text)>> ELSE <<>>)

\* An error path that keeps the tool calls received before the failure.
FinalizeMessageKeepsCalls(s) ==
  AssistantMessage(
    IF s.fails THEN <<TextContent(ErrorText)>> ELSE ContentList(s),
    s.tool_calls,
    IF s.fails THEN "error"
    ELSE IF s.finish_reason # "" THEN s.finish_reason
    ELSE IF s.tool_calls = <<>> THEN "stop" ELSE "tool_calls")

\* An error path that keeps the text and the reasoning streamed before the
\* failure, and puts the error text behind them.
FinalizeMessageKeepsPartial(s) ==
  IF s.fails
  THEN AssistantMessage(ContentList(s) \o <<TextContent(ErrorText)>>, NoCalls, "error")
  ELSE AssistantMessage(
         ContentList(s),
         s.tool_calls,
         IF s.finish_reason # "" THEN s.finish_reason
         ELSE IF s.tool_calls = <<>> THEN "stop" ELSE "tool_calls")

\* _stream_llm_response's finalized message for a provider stream s.
FinalizeMessage(s) ==
  IF s.fails
  THEN AssistantMessage(<<TextContent(ErrorText)>>, NoCalls, "error")
  ELSE AssistantMessage(
         ContentList(s),
         s.tool_calls,
         IF s.finish_reason # "" THEN s.finish_reason
         ELSE IF s.tool_calls = <<>> THEN "stop" ELSE "tool_calls")

\* A failure path that ends without a MessageEnd.
StreamEventsFailureSilent(s) ==
  <<Plain("message_start")>>
  \o (IF s.text # "" THEN <<Plain("message_update")>> ELSE <<>>)
  \o (IF s.fails THEN <<>> ELSE <<Plain("message_end")>>)

\* The events _stream_llm_response yields for s.
StreamEvents(s) ==
  <<Plain("message_start")>>
  \o (IF s.reasoning # ""
      THEN <<Plain("reasoning_start"), Plain("reasoning_update")>> ELSE <<>>)
  \o (IF s.text # "" THEN <<Plain("message_update")>> ELSE <<>>)
  \o (IF s.reasoning # "" /\ ~s.fails THEN <<Plain("reasoning_end")>> ELSE <<>>)
  \o <<Plain("message_end")>>

\* A progress check that looks at text blocks only.
HasOutputTextOnly(content) ==
  \E i \in 1..Len(content) :
    content[i].type = "text" /\ Strip(content[i].text) # ""

\* any(isinstance(c, (TextContent, ReasoningContent)) and c.text.strip() ...)
HasOutput(content) ==
  \E i \in 1..Len(content) :
    content[i].type \in {"text", "reasoning"} /\ Strip(content[i].text) # ""

\* A tool loop over all the tool calls of the message.
AttemptedAll(message) == message.tool_calls

\* assistant_message.tool_calls[:max_tool_calls_per_turn]
Attempted(message) ==
  SubSeq(message.tool_calls, 1, Min(Len(message.tool_calls), max_tool_calls_per_turn))

\* One provider response: the stream is consumed, the finalized message is
\* appended to the history, progress is tracked and the tool loop is set up.
\* _stream_llm_response yields a MessageEnd on both of its paths, so the
\* `if not assistant_message: break` of _run_loop is never taken.
StreamLLM ==
  /\ pc = "stream"
  /\ \E s \in ProviderStreams(turn, events_left) :
       LET m == FinalizeMessage(s) IN
       /\ stream' = s
       /\ events_left' = events_left - StreamCost(s)
       /\ Yield(StreamEvents(s))
       /\ assistant_message' = m
       /\ messages' = Append(messages, m)
       /\ loop_state' =
            [loop_state EXCEPT
               !.has_made_progress = @ \/ HasOutput(m.content),
               !.last_action =
                 IF m.tool_calls # <<>> THEN "tool_call"
                 ELSE IF HasOutput(m.content) THEN "text" ELSE @]
       /\ pc' = IF Attempted(m) # <<>> THEN "tools" ELSE "turn_end"
  /\ tool_results' = <<>>
  /\ error_count' = 0
  /\ call_index' = 1
  /\ UNCHANGED <<pipeline, normalizer, collector, callers, compaction, handles, bus>>
  /\ UNCHANGED <<config, turn, executed, subscribers>>

\* A tool loop that walks the attempted calls from the last to the first.
CurrentCallFromEnd ==
  Attempted(assistant_message)[Len(Attempted(assistant_message)) + 1 - call_index]

\* The tool call the tool loop stands at.
CurrentCall == Attempted(assistant_message)[call_index]

\* After a tool call: the next one, or the end of the turn.
AfterCall == IF call_index < Len(Attempted(assistant_message)) THEN "tools" ELSE "turn_end"

\* A bookkeeping that puts the result in the place of the message before it.
RecordOverLast(result) ==
  /\ loop_state' = [loop_state EXCEPT !.total_tool_calls = @ + 1]
  /\ tool_results' = Append(tool_results, result)
  /\ messages' = [messages EXCEPT ![Len(messages)] = result]
  /\ error_count' = IF result.is_error THEN error_count + 1 ELSE error_count
  /\ call_index' = call_index + 1
  /\ pc' = AfterCall

\* The bookkeeping every branch of the tool loop shares: the result message
\* goes to tool_results and to the history, an error is counted.
Record(result) ==
  /\ loop_state' = [loop_state EXCEPT !.total_tool_calls = @ + 1]
  /\ tool_results' = Append(tool_results, result)
  /\ messages' = Append(messages, result)
  /\ error_count' = IF result.is_error THEN error_count + 1 ELSE error_count
  /\ call_index' = call_index + 1
  /\ pc' = AfterCall

\* The result message _run_loop builds from a ToolExecutionEndEvent.
ResultOfEnd(end, content) ==
  ToolResultMessage(end.tool_call_id, end.tool_name, content, end.is_error)

\* The events _execute_tool yields: a start and an end.
ToolEvents(call, is_error) ==
  <<Event("tool_execution_start", call.id, call.name, FALSE),
    Event("tool_execution_end", call.id, call.name, is_error)>>

\* A tool call whose arguments fail the check: an error result is
\* synthesized, _execute_tool is not entered.
InvalidToolCall ==
  /\ pc = "tools"
  /\ InvalidArguments(CurrentCall.arguments)
  /\ Record(ToolResultMessage(CurrentCall.id, CurrentCall.name,
                              InvalidArgumentsContent(CurrentCall.name), TRUE))
  /\ UNCHANGED <<pipeline, normalizer, collector, callers, observers, compaction, handles, bus>>
  /\ UNCHANGED <<config, turn, assistant_message, events, executed, stream,
                 events_left>>

\* _execute_tool for a name tool_map does not hold.
ToolNotFound ==
  /\ pc = "tools"
  /\ ~InvalidArguments(CurrentCall.arguments)
  /\ CurrentCall.name \notin tool_map
  /\ Yield(ToolEvents(CurrentCall, TRUE))
  /\ Record(ResultOfEnd(ToolEvents(CurrentCall, TRUE)[2],
                        NotFoundContent(CurrentCall.name)))
  /\ UNCHANGED <<pipeline, normalizer, collector, callers, compaction, handles, bus>>
  /\ UNCHANGED <<config, turn, assistant_message, executed, stream, events_left,
                 subscribers>>

\* One await of tool.execute: the call it was given and how it ended.
Execution(call, outcome) ==
  [tool_call_id |-> call.id, name |-> call.name, arguments |-> call.arguments,
   outcome |-> outcome]

\* An end event that flags only the errors a tool returns, not the ones it
\* raises.
OutcomeIsErrorReturned(outcome) == outcome = "error"

\* What _execute_tool reports for an outcome of tool.execute.
OutcomeIsError(outcome) == outcome # "ok"
OutcomeContent(outcome) ==
  CASE outcome = "ok" -> <<"file contents">>
    [] outcome = "error" -> <<"no such file">>
    [] outcome = "raise" -> ExceptionContent(ExceptionMessage)

\* The event on_update emits for a partial result of a call.
ToolExecutionUpdateEvent(call) ==
  Event("tool_execution_update", call.id, call.name, FALSE)

\* What the subscribers are called with during _execute_tool of a registered
\* tool that calls on_update n times: the start, the updates, which are
\* emitted and not yielded, and the end.
ToolDeliveries(call, is_error, n) ==
  <<Delivery(ToolEvents(call, is_error)[1], Len(events))>>
  \o [k \in 1..n |-> Delivery(ToolExecutionUpdateEvent(call), Len(events) + 1)]
  \o <<Delivery(ToolEvents(call, is_error)[2], Len(events) + 1)>>

\* _execute_tool for a registered tool: execute is awaited once; it may call
\* on_update on its way, and what it returns or raises becomes the end event
\* and the result message.
ExecuteTool ==
  /\ pc = "tools"
  /\ ~InvalidArguments(CurrentCall.arguments)
  /\ CurrentCall.name \in tool_map
  /\ \E outcome \in ToolOutcomes, n \in 0..MaxUpdates :
       /\ executed' = Append(executed, Execution(CurrentCall, outcome))
       /\ events' = events \o ToolEvents(CurrentCall, OutcomeIsError(outcome))
       /\ EmitToSubscribers(ToolDeliveries(CurrentCall, OutcomeIsError(outcome), n))
       /\ Record(ResultOfEnd(ToolEvents(CurrentCall, OutcomeIsError(outcome))[2],
                             OutcomeContent(outcome)))
  /\ UNCHANGED <<pipeline, normalizer, collector, callers, compaction, handles, bus>>
  /\ UNCHANGED <<config, turn, assistant_message, stream, events_left,
                 subscribers>>

\* An error counter that takes one failed call for a failed turn.
AllToolsFailedAny == error_count > 0

\* Whether every result of the turn is an error: error_count == len(tool_results) > 0.
AllToolsFailed == error_count = Len(tool_results) /\ error_count > 0

\* The consecutive-error update at the end of a turn with tool calls.
UpdateErrors(ls) ==
  IF assistant_message.tool_calls = <<>> THEN ls
  ELSE IF AllToolsFailed
       THEN [ls EXCEPT !.consecutive_errors = @ + 1, !.last_action = "error"]
       ELSE [ls EXCEPT !.consecutive_errors = 0, !.has_made_progress = TRUE]

\* A continuation policy without the rule for truncated output.
ShouldContinueLoopNoLength(ls, message) ==
  IF ls.consecutive_errors >= MaxConsecutiveErrors THEN FALSE
  ELSE message.tool_calls # <<>>

\* A continuation policy that stops one failed turn late.
ShouldContinueLoopLate(ls, message) ==
  IF ls.consecutive_errors > MaxConsecutiveErrors THEN FALSE
  ELSE message.tool_calls # <<>> \/ message.stop_reason = "length"

\* Agent._should_continue_loop(message), with the loop state ls.
ShouldContinueLoop(ls, message) ==
  IF ls.consecutive_errors >= MaxConsecutiveErrors THEN FALSE
  ELSE IF message.tool_calls # <<>> THEN TRUE
  ELSE IF message.stop_reason = "length" THEN TRUE
  ELSE IF ls.has_made_progress /\ message.tool_calls = <<>> THEN FALSE
  ELSE FALSE

\* The tail of one iteration: the error counter is updated, TurnEnd is
\* yielded, and the loop goes on to the next iteration or leaves.
TurnEnd ==
  /\ pc = "turn_end"
  /\ loop_state' = UpdateErrors(loop_state)
  /\ Yield(<<Plain("turn_end")>>)
  /\ IF ShouldContinueLoop(loop_state', assistant_message)
     THEN turn' = turn + 1 /\ pc' = ForLoop(turn + 1)
     ELSE turn' = turn /\ pc' = "agent_end"
  /\ UNCHANGED <<pipeline, normalizer, collector, callers, compaction, handles, bus>>
  /\ UNCHANGED <<config, messages, assistant_message, call_index, tool_results,
                 error_count, executed, stream, events_left, subscribers>>

\* After the loop: AgentEnd is yielded and prompt() is exhausted.
AgentEnd ==
  /\ pc = "agent_end"
  /\ Yield(<<Plain("agent_end")>>)
  /\ pc' = "done"
  /\ UNCHANGED <<pipeline, normalizer, collector, callers, compaction, handles, bus>>
  /\ UNCHANGED <<config, messages, loop_state, turn, assistant_message,
                 call_index, tool_results, error_count, executed, stream,
                 events_left, subscribers>>

Next ==
  \/ Prompt
  \/ TurnStart
  \/ StreamLLM
  \/ InvalidToolCall
  \/ ToolNotFound
  \/ ExecuteTool
  \/ TurnEnd
  \/ AgentEnd

Spec == Init /\ [][Next]_vars

\* ------------------------------------------- the turns of one prompt
\* AgentConfig, as <<max_turns, max_tool_calls_per_turn>>: one turn more
\* than the error threshold with one tool call fewer a turn than a response
\* may hold, and two turns with room for every tool call of a response.
TurnConfigs ==
  {<<MaxConsecutiveErrors + 1, MaxCalls - 1>>,
   <<MaxConsecutiveErrors - 1, MaxCalls>>}

InitTurns ==
  /\ \E c \in TurnConfigs :
       max_turns = c[1] /\ max_tool_calls_per_turn = c[2]
  /\ AgentConstructed
  /\ extensions = SafetyOnly
  /\ PipelineIdle
  /\ NormalizerIdle
  /\ CollectorIdle
  /\ CallersIdle
  /\ BusIdle
  /\ HandlesIdle
  /\ CompactionIdle

SpecTurns == InitTurns /\ [][Next]_vars

\* ------------------------------------------- one prompt after another
\* prompt() on an agent whose previous prompt() is exhausted.
PromptAgain ==
  /\ pc = "done"
  /\ Cardinality({k \in DOMAIN events : events[k].type = "agent_start"}) < MaxPrompts
  /\ RunLoopHead

\* An agent of one turn a prompt, one tool call a turn.
InitSession ==
  /\ max_turns = 1
  /\ max_tool_calls_per_turn = MaxCalls - 1
  /\ AgentConstructed
  /\ extensions = SafetyOnly
  /\ PipelineIdle
  /\ NormalizerIdle
  /\ CollectorIdle
  /\ CallersIdle
  /\ BusIdle
  /\ HandlesIdle
  /\ CompactionIdle

NextSession ==
  \/ PromptAgain
  \/ Next

SpecSession == InitSession /\ [][NextSession]_vars

\* ------------------------------------------- a prompt with subscribers
\* subscribe(callback), before the prompt.
Subscribe ==
  /\ pc = "idle"
  /\ Len(subscribers) < MaxSubscribers
  /\ \E callback \in Callbacks :
       /\ subscribers' = Append(subscribers, callback)
       /\ delivered' = Append(delivered, <<>>)
  /\ UNCHANGED printed
  /\ UNCHANGED <<config, messages, loop_state, pc, turn, assistant_message,
                 call_index, tool_results, error_count, events, executed,
                 stream, events_left>>
  /\ UNCHANGED <<pipeline, normalizer, collector, callers, compaction, handles, bus>>

\* An agent of one turn, one tool call a turn.
InitObserve ==
  /\ max_turns = 1
  /\ max_tool_calls_per_turn = MaxCalls - 1
  /\ AgentConstructed
  /\ extensions = SafetyOnly
  /\ PipelineIdle
  /\ NormalizerIdle
  /\ CollectorIdle
  /\ CallersIdle
  /\ BusIdle
  /\ HandlesIdle
  /\ CompactionIdle

NextObserve ==
  \/ Subscribe
  \/ Next

SpecObserve == InitObserve /\ [][NextObserve]_vars

\* ===================================================================
\* ExtensionRunner.emit
\* ===================================================================
\* The tools a handler of this session vetoes: a handler with cancels calls
\* event.cancel() for a call of one of them (on_tool_call of the safety
\* extension looks at tool_name and args), never for another tool.
VetoedTools == tool_map

\* Whether handler h calls event.cancel() on event e.
Cancels(h, e) == h.cancels /\ e.tool_name \in VetoedTools

\* A position of emit(): about to await handler h of extension e, or about
\* to return.
At(where, e, h) == [pc |-> where, ext |-> e, handler |-> h]

RECURSIVE ForExtension(_, _)
RECURSIVE AfterExtension(_, _)
\* The head of `for ext in self.extensions` at extension e: the first
\* handler of e for the event's type, the check that follows an empty inner
\* loop, or the end of the outer loop.
ForExtension(e, ev) ==
  IF e > Len(extensions) THEN At("return", e, 1)
  ELSE IF GetHandlers(extensions[e], ev.type) # <<>> THEN At("call", e, 1)
  ELSE AfterExtension(e, ev)

\* After the inner loop of extension e: `if cancelled: break`, else the next
\* extension.
AfterExtension(e, ev) ==
  IF IsCancelled(ev) THEN At("return", e, 1) ELSE ForExtension(e + 1, ev)

\* An emit whose except branch leaves the inner loop.
AfterHandlerRaiseBreaks(e, h, ev, raised) ==
  IF raised \/ IsCancelled(ev) THEN AfterExtension(e, ev)
  ELSE IF h < Len(GetHandlers(extensions[e], ev.type)) THEN At("call", e, h + 1)
  ELSE AfterExtension(e, ev)

\* After `await handler(event, self.context)` for handler h of extension e.
\* The cancelled check sits inside the try block, after the await: a handler
\* that raised skips it and the inner loop goes on.
AfterHandler(e, h, ev, raised) ==
  IF ~raised /\ IsCancelled(ev) THEN AfterExtension(e, ev)
  ELSE IF h < Len(GetHandlers(extensions[e], ev.type)) THEN At("call", e, h + 1)
  ELSE AfterExtension(e, ev)

\* emit(event) up to its first await.
Emit(ev) ==
  LET at == ForExtension(1, ev) IN
  /\ emit_pc = "idle"
  /\ event' = ev
  /\ invoked' = <<>>
  /\ emit_pc' = at.pc
  /\ ext' = at.ext
  /\ handler' = at.handler
  /\ UNCHANGED <<extensions, returned>>
  /\ UNCHANGED <<agent, normalizer, observers, collector, callers, compaction, handles, bus>>

\* emit_tool_call(tool_name, args): a fresh ToolCallEvent goes through emit.
\* The event is built when the call is made, once the pipeline is idle.
EmitToolCall ==
  \E tool_name \in ToolNames :
    /\ emit_pc = "idle"
    /\ Emit(ToolCallEvent(tool_name))

\* await runner.emit(SessionStartEvent())
EmitSessionStart == Emit(SessionStartEvent)

\* The handler emit() stands at: its place in its extension's api.on calls.
CurrentHandler == GetHandlers(extensions[ext], event.type)[handler]

\* A start or end of a handler, as the log of one emit() keeps it.
Invocation(what, e, h) == [what |-> what, ext |-> e, handler |-> h]

\* `await handler(event, self.context)`: the handler starts.
HandlerStart ==
  /\ emit_pc = "call"
  /\ invoked' = Append(invoked, Invocation("start", ext, CurrentHandler))
  /\ emit_pc' = "await"
  /\ UNCHANGED <<extensions, event, ext, handler, returned>>
  /\ UNCHANGED <<agent, normalizer, observers, collector, callers, compaction, handles, bus>>

\* The handler completes: it has marked the payload, cancelled the event if
\* it vetoes this call, and returned or raised.  emit moves on.
HandlerEnd ==
  /\ emit_pc = "await"
  /\ LET h == extensions[ext].on[CurrentHandler]
         ev == [event EXCEPT !.data = Append(@, <<ext, CurrentHandler>>),
                             !.cancelled = @ \/ Cancels(h, event)]
         at == AfterHandler(ext, handler, ev, h.raises)
     IN /\ event' = ev
        /\ invoked' = Append(invoked, Invocation("end", ext, CurrentHandler))
        /\ emit_pc' = at.pc
        /\ ext' = at.ext
        /\ handler' = at.handler
  /\ UNCHANGED <<extensions, returned>>
  /\ UNCHANGED <<agent, normalizer, observers, collector, callers, compaction, handles, bus>>

\* `return event`
EmitReturn ==
  /\ emit_pc = "return"
  /\ returned' = event
  /\ emit_pc' = "idle"
  /\ UNCHANGED <<extensions, event, ext, handler, invoked>>
  /\ UNCHANGED <<agent, normalizer, observers, collector, callers, compaction, handles, bus>>

\* A session with any loaded extensions; the agent stays as constructed.
InitEmit ==
  /\ max_turns = MaxConsecutiveErrors
  /\ max_tool_calls_per_turn = MaxCalls
  /\ AgentConstructed
  /\ extensions \in Registrations
  /\ PipelineIdle
  /\ NormalizerIdle
  /\ CollectorIdle
  /\ CallersIdle
  /\ BusIdle
  /\ HandlesIdle
  /\ CompactionIdle

NextEmit ==
  \/ EmitToolCall
  \/ EmitSessionStart
  \/ HandlerStart
  \/ HandlerEnd
  \/ EmitReturn

SpecEmit == InitEmit /\ [][NextEmit]_vars

\* ===================================================================
\* The stream normalizers: OpenAIProvider.stream, AnthropicProvider.stream
\* ===================================================================
\* Argument text is a sequence of characters.  "m" stands for one member of
\* a JSON object ("file_path": "a.py"), "1" for a digit, " " for whitespace.
Fragments == {<<"{", "m">>, <<"}">>, <<"1">>, <<" ">>}

\* not s or not s.strip()
IsBlank(chars) == \A i \in DOMAIN chars : chars[i] = " "

\* The value of a JSON number: a non-mapping.
NumberArgs == [type |-> "int", len |-> 1]
\* json.JSONDecodeError, as the outcome of JsonLoads.
JSONDecodeError == [type |-> "JSONDecodeError", len |-> 0]

\* json.loads on this alphabet: whitespace around the tokens is skipped; an
\* object is "{" "}" with at most one member between them, a number is a
\* run of digits; any other text raises JSONDecodeError.
JsonLoads(chars) ==
  LET tokens == SelectSeq(chars, LAMBDA c : c # " ")
      inner == {i \in DOMAIN chars : chars[i] # " "}
      spaced == \E i, j \in inner : \E k \in DOMAIN chars :
                  i < k /\ k < j /\ chars[k] = " "
  IN IF tokens = <<"{", "}">> THEN EmptyDict
     ELSE IF tokens = <<"{", "m", "}">> THEN DictArgs
     ELSE IF tokens # <<>> /\ (\A i \in DOMAIN tokens : tokens[i] = "1") /\ ~spaced
          THEN NumberArgs
     ELSE JSONDecodeError

\* OpenAIProvider.stream: blank text gives {}, else json.loads, and {} when
\* it raises JSONDecodeError.
ParseArguments(chars) ==
  IF IsBlank(chars) THEN EmptyDict
  ELSE IF JsonLoads(chars) = JSONDecodeError THEN EmptyDict
  ELSE JsonLoads(chars)

\* AnthropicProvider.stream: json.loads, and {} when it raises.
ParseInput(chars) ==
  IF JsonLoads(chars) = JSONDecodeError THEN EmptyDict ELSE JsonLoads(chars)

\* StreamEvent(type, delta, tool_call, finish_reason, reasoning_block_id)
StreamEvent(type, delta, tool_call, reason, reasoning_block_id) ==
  [type |-> type, delta |-> delta, tool_call |-> tool_call,
   finish_reason |-> reason, reasoning_block_id |-> reasoning_block_id]
NoToolCall == ToolCall("", "", EmptyDict)
TextDelta(delta) == StreamEvent("text_delta", delta, NoToolCall, "", "")
ReasoningDelta(delta, id) == StreamEvent("reasoning_delta", delta, NoToolCall, "", id)
ToolCallComplete(tool_call) == StreamEvent("tool_call", "", tool_call, "", "")
Finish(reason) == StreamEvent("finish", "", NoToolCall, reason, "")

\* The stream indices of the tool calls (content blocks) of one response.
Indices == {0, 1}
\* tc.index is None
NoIndex == -1
\* f"call_{tc_index}"
FallbackId(index) == <<"call_0", "call_1">>[index + 1]

\* One entry of delta.tool_calls.  A delta opens or re-announces its call
\* (id and name, no argument text) or carries argument text only.
ToolCallDelta(index, id, name, arguments) ==
  [index |-> index, id |-> id, name |-> name, arguments |-> arguments]
Announcements ==
  {ToolCallDelta(i, h[1], h[2], <<>>) :
     i \in Indices,
     h \in {<<"call_a", "read">>, <<"call_b", "bash">>, <<"call_b", "">>, <<"", "bash">>}}
ToolCallDeltas ==
  Announcements
  \cup {ToolCallDelta(i, "", "", f) : i \in Indices, f \in Fragments}
  \cup {ToolCallDelta(NoIndex, "", "", <<"}">>)}

\* A chunk of the chat-completions stream: choices[0].delta.content,
\* choices[0].delta.tool_calls and choices[0].finish_reason; choices is
\* empty in a chunk that carries none of them.
Chunk(content, tool_calls, reason) ==
  [choices |-> content # "" \/ tool_calls # <<>> \/ reason # "",
   content |-> content, tool_calls |-> tool_calls, finish_reason |-> reason]
Chunks ==
  {Chunk("", <<>>, ""), Chunk("Hello", <<>>, ""), Chunk("", <<>>, "stop"),
   Chunk("", <<>>, "content_filter")}
  \cup {Chunk("", <<tc>>, "") : tc \in ToolCallDeltas}

\* tc.index if tc.index is not None else 0
TcIndex(tc) == IF tc.index = NoIndex THEN 0 ELSE tc.index

\* The place of index in the accumulator (a dict, kept in insertion order),
\* 0 when it has no entry.
Slot(acc, index) ==
  IF \E k \in DOMAIN acc : acc[k].index = index
  THEN CHOOSE k \in DOMAIN acc : acc[k].index = index
  ELSE 0

\* An accumulator that appends every fragment to its first entry.
AccumulateUnkeyed(acc, tc) ==
  LET index == TcIndex(tc)
      opened == IF Slot(acc, index) = 0
                THEN Append(acc, [index |-> index,
                                  id |-> IF tc.id # "" THEN tc.id ELSE FallbackId(index),
                                  name |-> "", arguments |-> <<>>])
                ELSE acc
      k == Slot(opened, index)
  IN [opened EXCEPT ![k].id = IF tc.id # "" THEN tc.id ELSE @,
                    ![k].name = IF tc.name # "" THEN tc.name ELSE @,
                    ![1].arguments = @ \o tc.arguments]

\* The body of `for tc in delta.tool_calls`: the entry of the index is
\* created on first sight, then id, name and argument text are updated.
Accumulate(acc, tc) ==
  LET index == TcIndex(tc)
      opened == IF Slot(acc, index) = 0
                THEN Append(acc, [index |-> index,
                                  id |-> IF tc.id # "" THEN tc.id ELSE FallbackId(index),
                                  name |-> "", arguments |-> <<>>])
                ELSE acc
      k == Slot(opened, index)
  IN [opened EXCEPT ![k].id = IF tc.id # "" THEN tc.id ELSE @,
                    ![k].name = IF tc.name # "" THEN tc.name ELSE @,
                    ![k].arguments = @ \o tc.arguments]

RECURSIVE AccumulateAll(_, _)
\* for tc in delta.tool_calls
AccumulateAll(acc, tool_calls) ==
  IF tool_calls = <<>> THEN acc
  ELSE AccumulateAll(Accumulate(acc, Head(tool_calls)), Tail(tool_calls))

\* An end of stream that yields the finish event before the tool calls.
EndOfStreamFinishFirst(acc, reason) ==
  (IF reason # "" THEN <<Finish(reason)>> ELSE <<>>)
  \o [k \in DOMAIN acc |->
        ToolCallComplete(ToolCall(acc[k].id, acc[k].name, ParseArguments(acc[k].arguments)))]

\* After the stream ends: one tool_call event per accumulator entry, in
\* insertion order, then the finish event if a finish reason was captured.
EndOfStream(acc, reason) ==
  [k \in DOMAIN acc |->
     ToolCallComplete(ToolCall(acc[k].id, acc[k].name, ParseArguments(acc[k].arguments)))]
  \o (IF reason # "" THEN <<Finish(reason)>> ELSE <<>>)

\* `async for chunk in stream`: one chunk of the OpenAI stream.
OpenAIChunk ==
  /\ provider = "openai"
  /\ stream_pc = "open"
  /\ chunks_left > 0
  /\ \E chunk \in Chunks :
       /\ received' = Append(received, chunk)
       /\ IF ~chunk.choices
          THEN UNCHANGED <<finish_reason, yielded, accumulator>>
          ELSE /\ finish_reason' =
                    IF chunk.finish_reason # "" THEN chunk.finish_reason
                    ELSE finish_reason
               /\ yielded' =
                    IF chunk.content # "" THEN Append(yielded, TextDelta(chunk.content))
                    ELSE yielded
               /\ accumulator' = AccumulateAll(accumulator, chunk.tool_calls)
  /\ chunks_left' = chunks_left - 1
  /\ UNCHANGED <<provider, stream_pc, reasoning_buffer>>
  /\ UNCHANGED <<agent, pipeline, observers, collector, callers, compaction, handles, bus>>

\* The OpenAI stream is exhausted: the tool calls and the finish event.
OpenAIEnd ==
  /\ provider = "openai"
  /\ stream_pc = "open"
  /\ yielded' = yielded \o EndOfStream(accumulator, finish_reason)
  /\ stream_pc' = "done"
  /\ UNCHANGED <<provider, accumulator, reasoning_buffer, finish_reason,
                 chunks_left, received>>
  /\ UNCHANGED <<agent, pipeline, observers, collector, callers, compaction, handles, bus>>

\* The transport fails while the stream is read: the exception leaves
\* stream(); what was yielded stays yielded.
StreamRaises ==
  /\ stream_pc = "open"
  /\ stream_pc' = "raised"
  /\ UNCHANGED <<provider, accumulator, reasoning_buffer, finish_reason,
                 yielded, chunks_left, received>>
  /\ UNCHANGED <<agent, pipeline, observers, collector, callers, compaction, handles, bus>>

\* f"reasoning_{event.index}"
ReasoningId(index) == <<"reasoning_0", "reasoning_1">>[index + 1]

\* The events of the Anthropic message stream that stream() looks at.
ContentBlockStart(index, type, id, name) ==
  [event |-> "content_block_start", index |-> index, type |-> type,
   id |-> id, name |-> name, delta |-> <<>>]
ContentBlockDelta(index, type, delta) ==
  [event |-> "content_block_delta", index |-> index, type |-> type,
   id |-> "", name |-> "", delta |-> delta]
ContentBlockStop(index) ==
  [event |-> "content_block_stop", index |-> index, type |-> "",
   id |-> "", name |-> "", delta |-> <<>>]
\* The end of the message, with the stop_reason of the final message ("" is
\* None).
MessageStop(stop_reason) ==
  [event |-> "message_stop", index |-> NoIndex, type |-> stop_reason,
   id |-> "", name |-> "", delta |-> <<>>]

\* The content blocks the backend opens.
BlockStarts ==
  {ContentBlockStart(i, type, "", "") : i \in Indices, type \in {"text", "thinking"}}
  \cup {ContentBlockStart(i, "tool_use", h[1], h[2]) :
          i \in Indices, h \in {<<"toolu_a", "read">>, <<"toolu_b", "bash">>}}
\* The deltas the backend sends inside a block of a type: text in a text
\* block, thinking (or, in the older format, text) in a thinking block,
\* partial_json in a tool_use block.
BlockDeltas(i, type) ==
  IF type = "tool_use" THEN {ContentBlockDelta(i, "partial_json", f) : f \in Fragments}
  ELSE IF type = "thinking"
       THEN {ContentBlockDelta(i, "thinking", <<"H">>), ContentBlockDelta(i, "text", <<"H">>)}
  ELSE {ContentBlockDelta(i, "text", <<"H">>)}
\* final_message.stop_reason
StopReasons == {"", "end_turn", "max_tokens", "tool_use", "stop_sequence", "refusal"}

\* What the backend has sent about block i so far.
Started(i) == \E k \in DOMAIN received :
                received[k].event = "content_block_start" /\ received[k].index = i
Stopped(i) == \E k \in DOMAIN received :
                received[k].event = "content_block_stop" /\ received[k].index = i
BlockType(i) ==
  received[CHOOSE k \in DOMAIN received :
             received[k].event = "content_block_start" /\ received[k].index = i].type

\* event.type == "content_block_start"
AnthropicBlockStart ==
  /\ provider = "anthropic"
  /\ stream_pc = "open"
  /\ chunks_left > 0
  /\ \E e \in BlockStarts :
       /\ ~Started(e.index)
       /\ received' = Append(received, e)
       /\ accumulator' =
            IF e.type = "tool_use"
            THEN Append(accumulator, [index |-> e.index, id |-> e.id,
                                      name |-> e.name, arguments |-> <<>>])
            ELSE accumulator
       /\ reasoning_buffer' =
            IF e.type = "thinking"
            THEN Append(reasoning_buffer, [index |-> e.index,
                                           id |-> ReasoningId(e.index),
                                           content |-> <<>>])
            ELSE reasoning_buffer
  /\ chunks_left' = chunks_left - 1
  /\ UNCHANGED <<provider, stream_pc, finish_reason, yielded>>
  /\ UNCHANGED <<agent, pipeline, observers, collector, callers, compaction, handles, bus>>

\* event.type == "content_block_delta"
AnthropicBlockDelta ==
  /\ provider = "anthropic"
  /\ stream_pc = "open"
  /\ chunks_left > 0
  /\ \E i \in Indices :
       /\ Started(i) /\ ~Stopped(i)
       /\ \E e \in BlockDeltas(i, BlockType(i)) :
            LET r == Slot(reasoning_buffer, i)
                k == Slot(accumulator, i)
            IN /\ received' = Append(received, e)
               /\ IF e.type = "text" /\ r # 0
                  THEN /\ reasoning_buffer' = [reasoning_buffer EXCEPT ![r].content = @ \o e.delta]
                       /\ yielded' = Append(yielded, ReasoningDelta(e.delta, reasoning_buffer[r].id))
                       /\ UNCHANGED accumulator
                  ELSE IF e.type = "text"
                  THEN /\ yielded' = Append(yielded, TextDelta(e.delta))
                       /\ UNCHANGED <<reasoning_buffer, accumulator>>
                  ELSE IF e.type = "thinking" /\ r # 0
                  THEN /\ reasoning_buffer' = [reasoning_buffer EXCEPT ![r].content = @ \o e.delta]
                       /\ yielded' = Append(yielded, ReasoningDelta(e.delta, reasoning_buffer[r].id))
                       /\ UNCHANGED accumulator
                  ELSE IF e.type = "partial_json" /\ k # 0
                  THEN /\ accumulator' = [accumulator EXCEPT ![k].arguments = @ \o e.delta]
                       /\ UNCHANGED <<reasoning_buffer, yielded>>
                  ELSE UNCHANGED <<reasoning_buffer, accumulator, yielded>>
  /\ chunks_left' = chunks_left - 1
  /\ UNCHANGED <<provider, stream_pc, finish_reason>>
  /\ UNCHANGED <<agent, pipeline, observers, collector, callers, compaction, handles, bus>>

\* event.type == "content_block_stop": a finished tool_use block is parsed
\* and yielded.
AnthropicBlockStop ==
  /\ provider = "anthropic"
  /\ stream_pc = "open"
  /\ chunks_left > 0
  /\ \E i \in Indices :
       /\ Started(i) /\ ~Stopped(i)
       /\ received' = Append(received, ContentBlockStop(i))
       /\ LET k == Slot(accumulator, i) IN
          yielded' =
            IF k # 0
            THEN Append(yielded,
                   ToolCallComplete(ToolCall(accumulator[k].id, accumulator[k].name,
                                             ParseInput(accumulator[k].arguments))))
            ELSE yielded
  /\ chunks_left' = chunks_left - 1
  /\ UNCHANGED <<provider, stream_pc, accumulator, reasoning_buffer, finish_reason>>
  /\ UNCHANGED <<agent, pipeline, observers, collector, callers, compaction, handles, bus>>

\* stop_reason_map.get(final_message.stop_reason, final_message.stop_reason)
StopReasonMap(stop_reason) ==
  IF stop_reason \in {"end_turn", "stop_sequence"} THEN "stop"
  ELSE IF stop_reason = "max_tokens" THEN "length"
  ELSE IF stop_reason = "tool_use" THEN "tool_calls"
  ELSE stop_reason

\* The message stream is exhausted, every block closed: get_final_message()
\* and the finish event.
AnthropicEnd ==
  /\ provider = "anthropic"
  /\ stream_pc = "open"
  /\ \A i \in Indices : Started(i) => Stopped(i)
  /\ \E stop_reason \in StopReasons :
       /\ received' = Append(received, MessageStop(stop_reason))
       /\ finish_reason' = StopReasonMap(stop_reason)
       /\ yielded' = Append(yielded, Finish(StopReasonMap(stop_reason)))
  /\ stream_pc' = "done"
  /\ UNCHANGED <<provider, accumulator, reasoning_buffer, chunks_left>>
  /\ UNCHANGED <<agent, pipeline, observers, collector, callers, compaction, handles, bus>>

\* LLMProvider implementations.
Providers == {"openai", "anthropic"}

\* The raw chunks of one response: MaxChunks from the chat-completions
\* backend; one more from the messages backend, which spends a stop event on
\* a tool_use block before its tool call is yielded.
StreamLength(p) == IF p = "anthropic" THEN MaxChunks + 1 ELSE MaxChunks

\* A provider's stream() has been called and the backend has answered.
InitStream ==
  /\ max_turns = MaxConsecutiveErrors
  /\ max_tool_calls_per_turn = MaxCalls
  /\ AgentConstructed
  /\ extensions = SafetyOnly
  /\ PipelineIdle
  /\ provider \in Providers
  /\ stream_pc = "open"
  /\ accumulator = <<>>
  /\ reasoning_buffer = <<>>
  /\ finish_reason = ""
  /\ yielded = <<>>
  /\ chunks_left = StreamLength(provider)
  /\ received = <<>>
  /\ CollectorIdle
  /\ CallersIdle
  /\ BusIdle
  /\ HandlesIdle
  /\ CompactionIdle

NextStream ==
  \/ OpenAIChunk
  \/ OpenAIEnd
  \/ AnthropicBlockStart
  \/ AnthropicBlockDelta
  \/ AnthropicBlockStop
  \/ AnthropicEnd
  \/ StreamRaises

SpecStream == InitStream /\ [][NextStream]_vars

\* ===================================================================
\* Agent._stream_llm_response, one stream event at a time
\* (src/agenix/core/agent.py)
\* ===================================================================
\* event.delta of a text or reasoning delta: nothing, or characters.
Deltas == {<<>>, <<"a">>, <<"b">>}
\* event.reasoning_block_id: None, or the id of a block.
ReasoningBlockIds == {"", "r1"}
\* event.finish_reason of a finish event: None, or a reason.
FinishValues == {"", "stop", "length"}
\* event.tool_call of a tool_call event: None, or a completed call.
CompletedCalls == {NoToolCall, ToolCall("call_0", "read", DictArgs)}

\* What the provider's stream may yield next.
CanonicalEvents ==
  {TextDelta(d) : d \in Deltas}
  \cup {ReasoningDelta(d, id) : d \in Deltas \ {<<>>}, id \in ReasoningBlockIds}
  \cup {ToolCallComplete(c) : c \in CompletedCalls}
  \cup {Finish(r) : r \in FinishValues}

RECURSIVE Join(_)
\* "".join(parts)
Join(parts) == IF parts = <<>> THEN <<>> ELSE Head(parts) \o Join(Tail(parts))

\* event.reasoning_block_id or "default"
ReasoningIdOf(e) ==
  IF e.reasoning_block_id = "" THEN DefaultReasoningId ELSE e.reasoning_block_id

\* reasoning_id in reasoning_parts
HasBlock(parts, id) == \E k \in DOMAIN parts : parts[k].reasoning_id = id

\* reasoning_parts after a delta of block id: a first delta opens the block
\* at the end of the dict, the delta is added to the block's text.
AddReasoning(parts, id, delta) ==
  LET opened == IF HasBlock(parts, id) THEN parts
                ELSE Append(parts, [reasoning_id |-> id, text |-> <<>>])
  IN [k \in DOMAIN opened |->
        IF opened[k].reasoning_id = id
        THEN [opened[k] EXCEPT !.text = @ \o delta] ELSE opened[k]]

\* ReasoningStartEvent(reasoning_id=reasoning_id)
ReasoningStartEvent(reasoning_id) ==
  [type |-> "reasoning_start", reasoning_id |-> reasoning_id]

\* ReasoningUpdateEvent(reasoning_id=reasoning_id, delta=event.delta)
ReasoningUpdateEvent(reasoning_id, delta) ==
  [type |-> "reasoning_update", reasoning_id |-> reasoning_id, delta |-> delta]

\* ReasoningEndEvent(reasoning_id=reasoning_id, content=content)
ReasoningEndEvent(reasoning_id, content) ==
  [type |-> "reasoning_end", reasoning_id |-> reasoning_id, content |-> content]

\* A content list that puts the text before the reasoning blocks.
CollectedContentTextFirst(parts, texts) ==
  (IF texts # <<>> THEN <<TextContent(Join(texts))>> ELSE <<>>)
  \o [k \in DOMAIN parts |-> ReasoningContent(parts[k].text, parts[k].reasoning_id)]

\* content_list: the reasoning blocks in the order of the dict, then the text
\* block `if text_parts`.
CollectedContent(parts, texts) ==
  [k \in DOMAIN parts |-> ReasoningContent(parts[k].text, parts[k].reasoning_id)]
  \o (IF texts # <<>> THEN <<TextContent(Join(texts))>> ELSE <<>>)

\* A fallback that infers the stop reason the wrong way round.
StopReasonInferredSwapped(reason, calls) ==
  IF reason # "" THEN reason
  ELSE IF calls = <<>> THEN "tool_calls" ELSE "stop"

\* message.stop_reason: the captured finish reason, else inferred from the
\* tool calls.
StopReason(reason, calls) ==
  IF reason # "" THEN reason
  ELSE IF calls = <<>> THEN "stop" ELSE "tool_calls"

\* The working message is created and MessageStart is yielded; the provider
\* stream is opened.
CollectStart ==
  /\ collect_pc = "idle"
  /\ working_message' = AssistantMessage(<<>>, NoCalls, "")
  /\ message_events' = <<Plain("message_start")>>
  /\ collect_pc' = "streaming"
  /\ UNCHANGED <<text_parts, tool_calls_list, reasoning_parts,
                 captured_finish_reason, consumed, deltas_left>>
  /\ UNCHANGED <<agent, pipeline, normalizer, observers, callers, compaction, handles, bus>>

\* One pass of `async for event in stream`.
CollectEvent ==
  /\ collect_pc = "streaming"
  /\ deltas_left > 0
  /\ \E e \in CanonicalEvents :
       /\ consumed' = Append(consumed, e)
       /\ CASE e.type = "text_delta" ->
                 /\ text_parts' = Append(text_parts, e.delta)
                 /\ working_message' =
                      [working_message EXCEPT
                         !.content = <<TextContent(Join(text_parts'))>>]
                 /\ message_events' = Append(message_events, Plain("message_update"))
                 /\ UNCHANGED <<tool_calls_list, reasoning_parts,
                                captured_finish_reason>>
            [] e.type = "reasoning_delta" ->
                 /\ reasoning_parts' =
                      AddReasoning(reasoning_parts, ReasoningIdOf(e), e.delta)
                 /\ message_events' =
                      message_events
                      \o (IF HasBlock(reasoning_parts, ReasoningIdOf(e)) THEN <<>>
                          ELSE <<ReasoningStartEvent(ReasoningIdOf(e))>>)
                      \o <<ReasoningUpdateEvent(ReasoningIdOf(e), e.delta)>>
                 /\ UNCHANGED <<text_parts, tool_calls_list,
                                captured_finish_reason, working_message>>
            [] e.type = "tool_call" ->
                 /\ tool_calls_list' =
                      IF e.tool_call # NoToolCall
                      THEN Append(tool_calls_list, e.tool_call) ELSE tool_calls_list
                 /\ UNCHANGED <<text_parts, reasoning_parts,
                                captured_finish_reason, working_message,
                                message_events>>
            [] e.type = "finish" ->
                 /\ captured_finish_reason' =
                      IF e.finish_reason # "" THEN e.finish_reason
                      ELSE captured_finish_reason
                 /\ UNCHANGED <<text_parts, tool_calls_list, reasoning_parts,
                                working_message, message_events>>
  /\ deltas_left' = deltas_left - 1
  /\ UNCHANGED collect_pc
  /\ UNCHANGED <<agent, pipeline, normalizer, observers, callers, compaction, handles, bus>>

\* The stream is exhausted: a ReasoningEnd per block, the message is
\* finalized and MessageEnd is yielded.
CollectEnd ==
  /\ collect_pc = "streaming"
  /\ working_message' =
       AssistantMessage(CollectedContent(reasoning_parts, text_parts),
                        tool_calls_list,
                        StopReason(captured_finish_reason, tool_calls_list))
  /\ message_events' =
       message_events
       \o [k \in DOMAIN reasoning_parts |->
             ReasoningEndEvent(reasoning_parts[k].reasoning_id,
                               reasoning_parts[k].text)]
       \o <<Plain("message_end")>>
  /\ collect_pc' = "done"
  /\ UNCHANGED <<text_parts, tool_calls_list, reasoning_parts,
                 captured_finish_reason, consumed, deltas_left>>
  /\ UNCHANGED <<agent, pipeline, normalizer, observers, callers, compaction, handles, bus>>

\* The provider raises while the stream is read: the error message takes
\* the place of what was collected, and MessageEnd is yielded.
CollectRaises ==
  /\ collect_pc = "streaming"
  /\ working_message' = AssistantMessage(<<TextContent(ErrorText)>>, NoCalls, "error")
  /\ message_events' = Append(message_events, Plain("message_end"))
  /\ collect_pc' = "failed"
  /\ UNCHANGED <<text_parts, tool_calls_list, reasoning_parts,
                 captured_finish_reason, consumed, deltas_left>>
  /\ UNCHANGED <<agent, pipeline, normalizer, observers, callers, compaction, handles, bus>>

\* _stream_llm_response is about to run, on any provider stream.
InitCollect ==
  /\ max_turns = MaxConsecutiveErrors
  /\ max_tool_calls_per_turn = MaxCalls
  /\ AgentConstructed
  /\ extensions = SafetyOnly
  /\ PipelineIdle
  /\ NormalizerIdle
  /\ collect_pc = "idle"
  /\ text_parts = <<>>
  /\ tool_calls_list = <<>>
  /\ reasoning_parts = <<>>
  /\ captured_finish_reason = ""
  /\ working_message = AssistantMessage(<<>>, NoCalls, "")
  /\ consumed = <<>>
  /\ message_events = <<>>
  /\ deltas_left = MaxDeltas
  /\ CallersIdle
  /\ BusIdle
  /\ HandlesIdle
  /\ CompactionIdle

NextCollect ==
  \/ CollectStart
  \/ CollectEvent
  \/ CollectEnd
  \/ CollectRaises

SpecCollect == InitCollect /\ [][NextCollect]_vars

\* ===================================================================
\* The callers of prompt() on the session's agent
\* (src/agenix/ui/cli.py, src/agenix/extensions/builtin/cron,
\*  src/agenix/extensions/builtin/heartbeat)
\* ===================================================================
\* CLI.process_message, on_cron_job and on_heartbeat: each runs
\* `async for ... in agent.prompt(...)` on the same Agent (ctx.agent is the
\* agent the CLI drives).
Callers == {"cli", "cron", "heartbeat"}

\* The message a caller prompts with: the user's input, the job's
\* payload.message, the heartbeat prompt.
PromptOf(c) ==
  CASE c = "cli" -> "question"
    [] c = "cron" -> "job"
    [] c = "heartbeat" -> "beat"

\* The local state of one prompt() run: where it is suspended, its loop
\* variable and the assistant message of its turn.
RunOf(where, t, m) == [pc |-> where, turn |-> t, assistant_message |-> m]
NotRunning == RunOf("idle", 0, AssistantMessage(<<>>, NoCalls, ""))

\* The services await their callback when a job or a beat is due, each from
\* its own task on the session's event loop; the CLI awaits process_message
\* when the user has entered a line.  None of them looks at the other
\* callers.
Due(c) == runs[c].pc = "idle"

\* What the provider streams to a run in its turn t: an answer, or a call
\* of the registered tool.
CallerStreams(t) ==
  {[NoStream EXCEPT !.text = "Hello"],
   [NoStream EXCEPT !.tool_calls = <<ToolCall(<<t, 1>>, "read", DictArgs)>>]}

\* The end of a run's iteration, from the consecutive-error update on: the
\* run goes on to its next turn, where it awaits the provider, or ends.
EndOfTurn(c, ls, m) ==
  IF ShouldContinueLoop(ls, m) /\ ForLoop(runs[c].turn + 1) = "turn_start"
  THEN /\ loop_state' = [ls EXCEPT !.turn = runs[c].turn + 1]
       /\ runs' = [runs EXCEPT ![c] = RunOf("stream", runs[c].turn + 1, m)]
  ELSE /\ loop_state' = ls
       /\ runs' = [runs EXCEPT ![c] = RunOf("done", runs[c].turn, m)]

\* A caller starts to iterate agent.prompt(message): the user message is
\* appended, the loop state is replaced by a new one, and the run is
\* suspended in the first turn's await of the provider stream.
CallerPrompt(c) ==
  /\ Due(c)
  /\ Cardinality({k \in DOMAIN messages : messages[k].role = "user"}) < MaxPrompts
  /\ messages' = Append(messages, UserMessage(PromptOf(c)))
  /\ owners' = Append(owners, c)
  /\ loop_state' = LoopState
  /\ runs' = [runs EXCEPT ![c] = RunOf("stream", 0, NotRunning.assistant_message)]
  /\ UNCHANGED <<config, pc, turn, assistant_message, call_index, tool_results,
                 error_count, events, executed, stream, events_left>>
  /\ UNCHANGED <<pipeline, normalizer, observers, collector, compaction, handles, bus>>

\* The provider stream of a suspended run ends: the message is appended and
\* progress is tracked on the agent's loop state; with a tool call the run
\* is suspended again, in tool.execute.
CallerResponse(c) ==
  /\ runs[c].pc = "stream"
  /\ \E s \in CallerStreams(runs[c].turn) :
       LET m == FinalizeMessage(s)
           ls == [loop_state EXCEPT
                    !.has_made_progress = @ \/ HasOutput(m.content),
                    !.last_action =
                      IF m.tool_calls # <<>> THEN "tool_call"
                      ELSE IF HasOutput(m.content) THEN "text" ELSE @]
       IN /\ messages' = Append(messages, m)
          /\ owners' = Append(owners, c)
          /\ IF m.tool_calls # <<>>
             THEN /\ loop_state' = [ls EXCEPT !.total_tool_calls = @ + 1]
                  /\ runs' = [runs EXCEPT ![c] = RunOf("tool", runs[c].turn, m)]
             ELSE EndOfTurn(c, ls, m)
  /\ UNCHANGED <<config, pc, turn, assistant_message, call_index, tool_results,
                 error_count, events, executed, stream, events_left>>
  /\ UNCHANGED <<pipeline, normalizer, observers, collector, compaction, handles, bus>>

\* tool.execute of a suspended run returns or raises: the result message is
\* appended, the consecutive errors are updated on the agent's loop state,
\* and the turn ends.
CallerToolResult(c) ==
  /\ runs[c].pc = "tool"
  /\ \E outcome \in ToolOutcomes :
       LET call == runs[c].assistant_message.tool_calls[1]
           ls == IF OutcomeIsError(outcome)
                 THEN [loop_state EXCEPT !.consecutive_errors = @ + 1,
                                         !.last_action = "error"]
                 ELSE [loop_state EXCEPT !.consecutive_errors = 0,
                                         !.has_made_progress = TRUE]
       IN /\ messages' =
               Append(messages,
                      ToolResultMessage(call.id, call.name, OutcomeContent(outcome),
                                        OutcomeIsError(outcome)))
          /\ owners' = Append(owners, c)
          /\ EndOfTurn(c, ls, runs[c].assistant_message)
  /\ UNCHANGED <<config, pc, turn, assistant_message, call_index, tool_results,
                 error_count, events, executed, stream, events_left>>
  /\ UNCHANGED <<pipeline, normalizer, observers, collector, compaction, handles, bus>>

\* A session with the cron and heartbeat extensions loaded: one agent of
\* two turns, one tool call a turn, and nobody prompting yet.
InitCallers ==
  /\ max_turns = MaxConsecutiveErrors - 1
  /\ max_tool_calls_per_turn = MaxCalls - 1
  /\ AgentConstructed
  /\ extensions = SafetyOnly
  /\ PipelineIdle
  /\ NormalizerIdle
  /\ CollectorIdle
  /\ runs = [c \in Callers |-> NotRunning]
  /\ owners = <<>>
  /\ BusIdle
  /\ HandlesIdle
  /\ CompactionIdle

NextCallers ==
  \E c \in Callers :
    \/ CallerPrompt(c)
    \/ CallerResponse(c)
    \/ CallerToolResult(c)

SpecCallers == InitCallers /\ [][NextCallers]_vars

\* ===================================================================
\* compact_messages
\* ===================================================================
\* The messages a history may hold: a user message, an assistant message
\* and a tool result.
HistoryMessages ==
  {UserMessage("request"),
   AssistantMessage(<<TextContent("Hello")>>, NoCalls, "stop"),
   ToolResultMessage(<<0, 1>>, "read", <<"ok">>, FALSE)}
Summaries == {"summary"}

\* AssistantMessage(content=[TextContent(f"[Conversation Summary]\n\n{summary}")],
\* tool_calls=[], model="compaction", stop_reason="end_turn")
SummaryMessage(summary) ==
  AssistantMessage(<<TextContent(<<"[Conversation Summary]\n\n", summary>>)>>,
                   NoCalls, "end_turn")

RECURSIVE KeepFromIndex(_, _, _)
\* for i in range(len(messages) - 1, -1, -1), with user_turns user messages
\* counted so far: the position of the second user message from the end,
\* and the position after the end when the loop runs out.
KeepFromIndex(history, i, user_turns) ==
  IF i = 0 THEN Len(history) + 1
  ELSE IF history[i].role = "user"
       THEN IF user_turns + 1 >= 2 THEN i
            ELSE KeepFromIndex(history, i - 1, user_turns + 1)
       ELSE KeepFromIndex(history, i - 1, user_turns)

\* [summary_message] + messages[keep_from_index:]
CompactMessages(history, summary) ==
  <<SummaryMessage(summary)>>
  \o SubSeq(history, KeepFromIndex(history, Len(history), 0), Len(history))

\* The caller's history grows by one message.
AppendMessage ==
  /\ compacted = <<>>
  /\ Len(messages) < MaxHistory
  /\ \E m \in HistoryMessages : messages' = Append(messages, m)
  /\ UNCHANGED compacted
  /\ UNCHANGED <<config, loop_state, pc, turn, assistant_message, call_index,
                 tool_results, error_count, events, executed, stream, events_left>>
  /\ UNCHANGED <<pipeline, normalizer, observers, collector, callers, handles, bus>>

\* compact_messages(messages, summary)
Compact ==
  /\ compacted = <<>>
  /\ \E summary \in Summaries : compacted' = CompactMessages(messages, summary)
  /\ UNCHANGED <<agent, pipeline, normalizer, observers, collector, callers, handles, bus>>

\* A history that nobody has compacted yet.
InitCompact ==
  /\ max_turns = MaxConsecutiveErrors
  /\ max_tool_calls_per_turn = MaxCalls
  /\ AgentConstructed
  /\ extensions = SafetyOnly
  /\ PipelineIdle
  /\ NormalizerIdle
  /\ CollectorIdle
  /\ CallersIdle
  /\ BusIdle
  /\ HandlesIdle
  /\ CompactionIdle

NextCompact ==
  \/ AppendMessage
  \/ Compact

SpecCompact == InitCompact /\ [][NextCompact]_vars

\* ===================================================================
\* Agent.subscribe, its unsubscribe functions and Agent._emit
\* ===================================================================
\* The callables given to subscribe(): two functions, each of which may be
\* subscribed more than once.
CallbackNames == {"f", "g"}

\* One entry of Agent.subscribers: the callable, and which subscribe() call
\* appended it (the list itself holds the callable only).
Registration(callback, reg) == [callback |-> callback, reg |-> reg]

\* Where list.remove(callback) finds callback: the first entry equal to it,
\* 0 when there is none.
IndexOf(list, callback) ==
  LET at == {i \in DOMAIN list : list[i].callback = callback} IN
  IF at = {} THEN 0 ELSE CHOOSE i \in at : \A j \in at : i <= j

\* self.subscribers.remove(callback); the list is left as it is when remove
\* raises ValueError.
Remove(list, callback) ==
  LET i == IndexOf(list, callback) IN
  IF i = 0 THEN list
  ELSE SubSeq(list, 1, i - 1) \o SubSeq(list, i + 1, Len(list))

RECURSIVE EmitLoop(_, _, _, _)
\* for callback in self.subscribers: callback(event) -- the list iterator
\* stands at position i of the list as it is now; the callbacks of the
\* registrations in U call their unsubscribe function when they are called.
\* Gives the list after the loop and the registrations called, in order.
EmitLoop(list, i, U, called) ==
  IF i > Len(list) THEN [subscribers |-> list, called |-> called]
  ELSE EmitLoop(IF list[i].reg \in U THEN Remove(list, list[i].callback) ELSE list,
                i + 1, U, Append(called, list[i].reg))

\* subscribe(callback): the callback is appended and its unsubscribe function
\* returned.
SubscribeCallback ==
  /\ Len(unsubscribe) < MaxSubscribers
  /\ \E callback \in CallbackNames :
       /\ subscribers' =
            Append(subscribers, Registration(callback, Len(unsubscribe) + 1))
       /\ unsubscribe' = Append(unsubscribe, callback)
  /\ delivered' = Append(delivered, <<>>)
  /\ UNCHANGED printed
  /\ UNCHANGED <<agent, pipeline, normalizer, collector, callers, compaction, bus>>

\* The unsubscribe function that the h-th subscribe() returned is called,
\* between two events.
Unsubscribe(h) ==
  /\ subscribers' = Remove(subscribers, unsubscribe[h])
  /\ UNCHANGED <<delivered, printed, unsubscribe>>
  /\ UNCHANGED <<agent, pipeline, normalizer, collector, callers, compaction, bus>>

\* _emit(event): every callback the list iterator comes to is called with
\* the event; a callback may call its unsubscribe function while it runs.
EmitEvent ==
  /\ Len(events) < MaxEmits
  /\ \E U \in SUBSET {subscribers[i].reg : i \in DOMAIN subscribers} :
       LET loop == EmitLoop(subscribers, 1, U, <<>>) IN
       /\ subscribers' = loop.subscribers
       /\ delivered' =
            [reg \in DOMAIN delivered |->
               delivered[reg]
               \o [k \in 1..Cardinality({c \in DOMAIN loop.called : loop.called[c] = reg})
                     |-> Delivery(Plain("turn_start"), Len(events))]]
  /\ events' = Append(events, Plain("turn_start"))
  /\ UNCHANGED <<printed, unsubscribe>>
  /\ UNCHANGED <<config, messages, loop_state, pc, turn, assistant_message,
                 call_index, tool_results, error_count, executed, stream,
                 events_left>>
  /\ UNCHANGED <<pipeline, normalizer, collector, callers, compaction, bus>>

\* An agent nobody has subscribed to yet.
InitUnsubscribe ==
  /\ max_turns = MaxConsecutiveErrors
  /\ max_tool_calls_per_turn = MaxCalls
  /\ AgentConstructed
  /\ extensions = SafetyOnly
  /\ PipelineIdle
  /\ NormalizerIdle
  /\ CollectorIdle
  /\ CallersIdle
  /\ BusIdle
  /\ HandlesIdle
  /\ CompactionIdle

NextUnsubscribe ==
  \/ SubscribeCallback
  \/ \E h \in DOMAIN unsubscribe : Unsubscribe(h)
  \/ EmitEvent

SpecUnsubscribe == InitUnsubscribe /\ [][NextUnsubscribe]_vars

\* ===================================================================
\* MessageBus (src/agenix/bus/bus.py), with its dispatch loop started
\* ===================================================================
\* Event.kind of the events the services publish.
EventKinds == {"cron_job", "heartbeat"}

\* What subscribe() may be given as event_kind: a kind, or "*" for all.
SubscriptionKinds == EventKinds \cup {"*"}

\* d.get(key, [])
Get(d, key) == IF key \in DOMAIN d THEN d[key] ELSE <<>>

\* d[key] = value
Put(d, key, value) ==
  [k \in DOMAIN d \cup {key} |-> IF k = key THEN value ELSE d[k]]

RECURSIVE SumLen(_, _)
SumLen(d, keys) ==
  IF keys = {} THEN 0
  ELSE LET k == CHOOSE x \in keys : TRUE IN Len(d[k]) + SumLen(d, keys \ {k})

\* subscriber_count: sum(len(subs) for subs in self._subscribers.values())
SubscriberCount(d) == SumLen(d, DOMAIN d)

\* _dispatch_event: `subscribers` is the registry's own list of the kind when
\* the kind has one, a fresh list otherwise; extend() adds the "*" callbacks
\* to it in place; then every callback of the list is awaited. Gives the
\* registry after the dispatch and the callbacks awaited, in order.
Dispatched(d, event_kind) ==
  IF event_kind \in DOMAIN d
  THEN LET extended == d[event_kind] \o Get(d, "*") IN
       [subscribers |-> Put(d, event_kind, extended), awaited |-> extended]
  ELSE [subscribers |-> d, awaited |-> Get(d, "*")]

\* subscribe(event_kind, callback)
BusSubscribe ==
  /\ SubscriberCount(subscriptions) < MaxBusSubscribers
  /\ \E event_kind \in SubscriptionKinds, callback \in CallbackNames :
       /\ bus_subscribers' =
            Put(bus_subscribers, event_kind,
                Append(Get(bus_subscribers, event_kind), callback))
       /\ subscriptions' =
            Put(subscriptions, event_kind,
                Append(Get(subscriptions, event_kind), callback))
  /\ UNCHANGED <<queue, awaited, published>>
  /\ UNCHANGED <<agent, pipeline, normalizer, observers, collector, callers, compaction, handles>>

\* unsubscribe(event_kind, callback)
BusUnsubscribe ==
  /\ \E event_kind \in DOMAIN bus_subscribers, callback \in CallbackNames :
       /\ bus_subscribers' =
            Put(bus_subscribers, event_kind,
                SelectSeq(bus_subscribers[event_kind], LAMBDA cb : cb # callback))
       /\ subscriptions' =
            Put(subscriptions, event_kind,
                SelectSeq(Get(subscriptions, event_kind), LAMBDA cb : cb # callback))
  /\ UNCHANGED <<queue, awaited, published>>
  /\ UNCHANGED <<agent, pipeline, normalizer, observers, collector, callers, compaction, handles>>

\* publish(event)
Publish ==
  /\ published < MaxPublished
  /\ \E event_kind \in EventKinds : queue' = Append(queue, event_kind)
  /\ published' = published + 1
  /\ UNCHANGED <<bus_subscribers, subscriptions, awaited>>
  /\ UNCHANGED <<agent, pipeline, normalizer, observers, collector, callers, compaction, handles>>

\* One pass of _dispatch_loop: the next event is taken off the queue and
\* handed to _dispatch_event.
DispatchEvent ==
  /\ queue # <<>>
  /\ LET result == Dispatched(bus_subscribers, Head(queue)) IN
       /\ bus_subscribers' = result.subscribers
       /\ awaited' = result.awaited
  /\ queue' = Tail(queue)
  /\ UNCHANGED <<subscriptions, published>>
  /\ UNCHANGED <<agent, pipeline, normalizer, observers, collector, callers, compaction, handles>>

\* A bus nobody has subscribed to or published on yet.
InitBus ==
  /\ max_turns = MaxConsecutiveErrors
  /\ max_tool_calls_per_turn = MaxCalls
  /\ AgentConstructed
  /\ extensions = SafetyOnly
  /\ PipelineIdle
  /\ NormalizerIdle
  /\ CollectorIdle
  /\ CallersIdle
  /\ BusIdle
  /\ HandlesIdle
  /\ CompactionIdle

NextBus ==
  \/ BusSubscribe
  \/ BusUnsubscribe
  \/ Publish
  \/ DispatchEvent

SpecBus == InitBus /\ [][NextBus]_vars

\* ===================================================================
\* Properties of the turn loop
\* ===================================================================
NumEvents(type) == Cardinality({i \in DOMAIN events : events[i].type = type})

AssistantIdx == {i \in DOMAIN messages : messages[i].role = "assistant"}
\* The positions of the assistant messages in the history, in order: one per
\* turn.
TurnPositions ==
  SelectSeq([i \in DOMAIN messages |-> i],
            LAMBDA i : messages[i].role = "assistant")
\* The history entries that follow the k-th assistant message, up to the next
\* assistant message: the tool results of turn k.
ResultsOfTurn(P, k) ==
  SubSeq(messages, P[k] + 1, IF k < Len(P) THEN P[k + 1] - 1 ELSE Len(messages))
\* Turn k has run all the tool calls it attempts.
TurnClosed(P, k) == k < Len(P) \/ pc # "tools"
\* Turn k attempted tool calls and each of them gave an error result.
TurnFailed(P, k) ==
  LET R == ResultsOfTurn(P, k) IN
  /\ TurnClosed(P, k)
  /\ Len(R) > 0
  /\ \A j \in 1..Len(R) : R[j].role = "tool" /\ R[j].is_error
\* Turns k-2, k-1 and k all failed.
ThreeFailed(P, k) ==
  k >= 3 /\ TurnFailed(P, k - 2) /\ TurnFailed(P, k - 1) /\ TurnFailed(P, k)

\* C1: one prompt() runs at most max_turns turns -- at most max_turns
\* TurnStart events, loop_state.turn < max_turns -- whatever the provider
\* and the tools do, and it ends with AgentEnd: before AgentEnd is yielded a
\* step is always possible, and AgentEnd is yielded once, last.
C1_TurnsBounded ==
  /\ NumEvents("turn_start") <= max_turns
  /\ loop_state.turn < max_turns
  /\ pc # "done" => ENABLED Next
  /\ NumEvents("agent_end") = (IF pc = "done" THEN 1 ELSE 0)
  /\ pc = "done" => events[Len(events)].type = "agent_end"

\* A prompt that ran all its max_turns = 3 turns, every assistant message
\* with tool calls, not stopped by errors, and ended.
C1_Witness ==
  /\ pc = "done"
  /\ max_turns = 3
  /\ NumEvents("turn_start") = 3
  /\ loop_state.consecutive_errors = 0
  /\ \A i \in AssistantIdx : messages[i].tool_calls # <<>>

\* C2: at the end of a turn the loop goes on to another turn exactly when
\* consecutive_errors (after the turn) is below 3, the turn's assistant
\* message has tool calls or stop_reason "length", and fewer than max_turns
\* turns have run; otherwise the prompt ends.
C2_Continuation ==
  [][pc = "turn_end" =>
       /\ pc' \in {"turn_start", "agent_end"}
       /\ (pc' = "turn_start") <=>
            /\ loop_state'.consecutive_errors < 3
            /\ \/ assistant_message.tool_calls # <<>>
               \/ assistant_message.stop_reason = "length"
            /\ NumEvents("turn_start") < max_turns]_vars

\* Scenario A: text, no tool calls, stop_reason "stop": the prompt is over
\* after that one turn although more turns were allowed.
C2_Witness ==
  /\ pc = "done"
  /\ max_turns > 1
  /\ NumEvents("turn_start") = 1
  /\ assistant_message = AssistantMessage(<<TextContent("Hello")>>, NoCalls, "stop")

\* C3: three turns in a row that each attempted tool calls and got only
\* error results end the loop: the third of them is the last turn of the
\* prompt, no fourth TurnStart is yielded, whatever max_turns allows.
C3_ErrorStop ==
  LET P == TurnPositions IN
  \A k \in 1..Len(P) :
    ThreeFailed(P, k) =>
      /\ k = Len(P)
      /\ pc \in {"turn_end", "agent_end", "done"}
      /\ NumEvents("turn_start") = k

\* Three failed turns under max_turns = 4: the prompt ended after the third.
C3_Witness ==
  /\ pc = "done"
  /\ max_turns > 3
  /\ ThreeFailed(TurnPositions, 3)
  /\ NumEvents("turn_start") = 3

\* The results of the turn are all errors.
AllResultsErrors == \A k \in 1..Len(tool_results) : tool_results[k].is_error

\* C4: at the end of a turn that attempted a tool call, consecutive_errors is
\* one more than before the turn when every result is an error, and 0 when
\* some result is not.
C4_ErrorCounter ==
  [][pc = "turn_end" /\ Len(tool_results) > 0 =>
       loop_state'.consecutive_errors =
         IF AllResultsErrors THEN loop_state.consecutive_errors + 1 ELSE 0]_vars

\* A second failed turn in a row has been counted.
C4_Witness ==
  /\ pc = "turn_start"
  /\ Len(tool_results) > 0
  /\ AllResultsErrors
  /\ loop_state.consecutive_errors = 2

\* The tool calls of turn k, and how many of them the loop is through with.
CallsOfTurn(P, k) == messages[P[k]].tool_calls
NumAttempted(P, k) ==
  IF Len(CallsOfTurn(P, k)) < max_tool_calls_per_turn
  THEN Len(CallsOfTurn(P, k)) ELSE max_tool_calls_per_turn
NumDone(P, k) == IF TurnClosed(P, k) THEN NumAttempted(P, k) ELSE call_index - 1
\* Turn k is over: its TurnEnd has been yielded.
TurnOver(P, k) == k < Len(P) \/ pc \in {"turn_start", "stream", "agent_end", "done"}
\* The history positions of the results for a tool call id, and the
\* executions of it.
ResultIdx(id) ==
  {j \in DOMAIN messages : messages[j].role = "tool" /\ messages[j].tool_call_id = id}
ExecIdx(id) == {j \in DOMAIN executed : executed[j].tool_call_id = id}
Pieces(content) == {content[q] : q \in DOMAIN content}

\* C5: every tool call of an assistant message in the history has exactly
\* one ToolResultMessage with its id between that message and the next
\* assistant message (or the end of the prompt), however many tool calls the
\* message has.
C5_OneResultPerCall ==
  LET P == TurnPositions IN
  \A k \in 1..Len(P) :
    TurnOver(P, k) =>
      \A c \in 1..Len(CallsOfTurn(P, k)) :
        LET R == ResultsOfTurn(P, k) IN
        Cardinality({j \in 1..Len(R) :
                       R[j].role = "tool"
                       /\ R[j].tool_call_id = CallsOfTurn(P, k)[c].id}) = 1

\* C6: the history is the user message, then turn by turn the assistant
\* message followed by the results of its tool calls, one per call the loop
\* is through with, in the order of the tool_calls list.
C6_HistoryOrder ==
  LET P == TurnPositions IN
  /\ pc # "idle" => Len(messages) >= 1 /\ messages[1].role = "user"
  /\ \A i \in 2..Len(messages) : messages[i].role # "user"
  /\ Len(messages) >= 2 => messages[2].role = "assistant"
  /\ \A k \in 1..Len(P) :
       LET R == ResultsOfTurn(P, k) IN
       /\ Len(R) = NumDone(P, k)
       /\ \A j \in 1..Len(R) :
            /\ R[j].role = "tool"
            /\ R[j].tool_call_id = CallsOfTurn(P, k)[j].id
       /\ \A c \in 1..Len(CallsOfTurn(P, k)) : CallsOfTurn(P, k)[c].id = <<k - 1, c>>

\* A finished prompt of two turns, the first with two tool results.
C6_Witness ==
  /\ pc = "done"
  /\ Len(TurnPositions) >= 2
  /\ Len(ResultsOfTurn(TurnPositions, 1)) = 2

\* C7: a tool call whose arguments are not a mapping is never handed to
\* execute, and its result is an error that carries the tool's name.
C7_NonMapping ==
  LET P == TurnPositions IN
  \A k \in 1..Len(P) : \A c \in 1..Len(CallsOfTurn(P, k)) :
    LET call == CallsOfTurn(P, k)[c] IN
    call.arguments.type # "dict" =>
      /\ ExecIdx(call.id) = {}
      /\ c <= NumDone(P, k) => ResultIdx(call.id) # {}
      /\ \A j \in ResultIdx(call.id) :
           /\ messages[j].is_error
           /\ messages[j].name = call.name
           /\ call.name \in Pieces(messages[j].content)

\* A call of the registered tool with a str for arguments has its result.
C7_Witness ==
  \E j \in DOMAIN messages :
    /\ messages[j].role = "tool"
    /\ \E i \in AssistantIdx : \E c \in DOMAIN messages[i].tool_calls :
         /\ messages[i].tool_calls[c].id = messages[j].tool_call_id
         /\ messages[i].tool_calls[c].arguments = StrArgs
         /\ messages[i].tool_calls[c].name \in tool_map

\* C8: a tool call the loop is through with, whose arguments are a mapping
\* (the empty one included) and whose name is registered, has been handed to
\* execute exactly once, with that mapping.
C8_MappingExecuted ==
  LET P == TurnPositions IN
  \A k \in 1..Len(P) : \A c \in 1..NumDone(P, k) :
    LET call == CallsOfTurn(P, k)[c] IN
    call.arguments.type = "dict" /\ call.name \in tool_map =>
      /\ Cardinality(ExecIdx(call.id)) = 1
      /\ \A j \in ExecIdx(call.id) : executed[j].arguments = call.arguments

\* C9: an execute that raises gives exactly one result for its call, an error
\* whose content starts with the error prefix and holds the exception's
\* message; the prompt goes on: the other calls of the turn get their results
\* and the turn ends with TurnEnd.
C9_ToolException ==
  LET P == TurnPositions IN
  \A e \in DOMAIN executed :
    executed[e].outcome = "raise" =>
      LET id == executed[e].tool_call_id
          k == id[1] + 1
      IN
      /\ Cardinality(ResultIdx(id)) = 1
      /\ \A j \in ResultIdx(id) :
           /\ messages[j].is_error
           /\ messages[j].content[1] = "Error executing tool: "
           /\ "disk full" \in Pieces(messages[j].content)
      /\ pc # "done" => ENABLED Next
      /\ TurnClosed(P, k) => Len(ResultsOfTurn(P, k)) = NumAttempted(P, k)
      /\ TurnOver(P, k) => NumEvents("turn_end") >= k

\* The first of two calls raised, the second was executed too, and the
\* prompt ended.
C9_Witness ==
  /\ pc = "done"
  /\ Len(executed) >= 2
  /\ executed[1].outcome = "raise"
  /\ executed[1].tool_call_id = <<0, 1>>
  /\ executed[2].tool_call_id = <<0, 2>>
  /\ NumEvents("turn_end") >= 1

\* C10: a tool call whose name is not registered is never executed; once the
\* loop is through with it, it has exactly one result, an error that names
\* the missing tool; the other calls of the turn get their results and the
\* turn ends.
C10_UnknownTool ==
  LET P == TurnPositions IN
  \A k \in 1..Len(P) : \A c \in 1..Len(CallsOfTurn(P, k)) :
    LET call == CallsOfTurn(P, k)[c] IN
    call.name \notin tool_map =>
      /\ ExecIdx(call.id) = {}
      /\ c <= NumDone(P, k) =>
           /\ Cardinality(ResultIdx(call.id)) = 1
           /\ \A j \in ResultIdx(call.id) :
                /\ messages[j].is_error
                /\ call.name \in Pieces(messages[j].content)
      /\ TurnClosed(P, k) => Len(ResultsOfTurn(P, k)) = NumAttempted(P, k)
      /\ TurnOver(P, k) => NumEvents("turn_end") >= k

\* An unregistered first call got its error result, the second call of the
\* turn was executed, and the prompt ended.
C10_Witness ==
  /\ pc = "done"
  /\ Len(TurnPositions) >= 1
  /\ Len(ResultsOfTurn(TurnPositions, 1)) = 2
  /\ CallsOfTurn(TurnPositions, 1)[1].name \notin tool_map
  /\ ResultsOfTurn(TurnPositions, 1)[1].content = <<"Error: Tool '", "ghost", "' not found">>
  /\ Len(executed) >= 1 /\ executed[1].tool_call_id = <<0, 2>>


\* C11: a tool call vetoed by an extension is not executed: Tool.execute
\* runs only for a call whose ToolCall event went through the extension
\* pipeline and came back not cancelled.
C11_VetoRespected ==
  executed # <<>> =>
    /\ returned.type = "tool_call"
    /\ returned.tool_name = executed[Len(executed)].name
    /\ ~returned.cancelled

\* C16: when the provider stream raises, at whatever point of the turn,
\* prompt() goes on to AgentEnd instead of raising: the turn's message is one
\* text block that describes the error, with stop_reason "error" and no tool
\* calls, it is the last entry of the history, and no TurnStart follows it.
C16_ProviderError ==
  stream.fails =>
    /\ Len(assistant_message.content) = 1
    /\ assistant_message.content[1] = TextContent(ErrorText)
    /\ assistant_message.stop_reason = "error"
    /\ assistant_message.tool_calls = <<>>
    /\ messages[Len(messages)] = assistant_message
    /\ pc \in {"turn_end", "agent_end", "done"}
    /\ NumEvents("turn_start") = NumEvents("message_end")
    /\ pc # "done" => ENABLED Next
    /\ pc = "done" => events[Len(events)].type = "agent_end"
\* prompt() has ended after the provider failed in a later turn, having
\* streamed text and a tool call before it raised.
C16_Witness ==
  /\ stream.fails /\ pc = "done" /\ turn > 0
  /\ stream.text # "" /\ stream.tool_calls # <<>>
  /\ max_turns > turn + 1

\* ===================================================================
\* Properties of the extension pipeline
\* ===================================================================
\* The handlers registered for the kind of the event in dispatch: extension
\* and place among its api.on calls.
Registered ==
  {p \in (DOMAIN extensions) \X (1..MaxHandlers) :
     /\ p[2] \in DOMAIN extensions[p[1]].on
     /\ extensions[p[1]].on[p[2]].type = event.type}
\* Extension-registration order, then handler-registration order.
Before(p, q) == p[1] < q[1] \/ (p[1] = q[1] /\ p[2] < q[2])
HandlerOf(p) == extensions[p[1]].on[p[2]]
\* The handlers this emit() has started, in the order it started them.
Starts == SelectSeq(invoked, LAMBDA v : v.what = "start")
StartedSet == {<<Starts[i].ext, Starts[i].handler>> : i \in DOMAIN Starts}
\* emit() is about to return its event.
Returning == emit_pc = "return"

Vetoing == {p \in Registered : Cancels(HandlerOf(p), event) /\ ~HandlerOf(p).raises}
C14_RaiseIsNoCancel ==
  Returning =>
    /\ IsCancelled(event) = (Vetoing # {})
    /\ StartedSet =
         {p \in Registered : \A v \in Vetoing : p = v \/ Before(p, v)}

\* C13: a raising handler neither stops the dispatch nor escapes emit: emit
\* always has a next step until it has returned, and when it returns an
\* event that no handler cancelled, every handler registered after a
\* raising one has been invoked.
C13_RaiseIsolated ==
  /\ emit_pc # "idle" => ENABLED NextEmit
  /\ (Returning /\ ~IsCancelled(event)) =>
       \A p \in Registered : HandlerOf(p).raises =>
         \A q \in Registered : Before(p, q) => q \in StartedSet
\* An emit returns an event nobody cancelled although a handler raised with
\* handlers registered after it, in its own extension and in the next one.
C13_Witness ==
  /\ Returning /\ ~IsCancelled(event)
  /\ \E p, q, r \in Registered :
       /\ HandlerOf(p).raises
       /\ q[1] = p[1] /\ q[2] > p[2]
       /\ r[1] > p[1]
       /\ {q, r} \subseteq StartedSet

\* C15: when no handler cancels, emit invokes each handler registered for
\* the event's kind exactly once, in extension order and within an extension
\* in registration order, each start directly followed by the end of the
\* same handler, and the event it returns is the one it was given, with the
\* handlers' marks in its payload in that order.
C15_OrderedDispatch ==
  /\ (Returning /\ ~IsCancelled(event)) =>
       /\ Len(Starts) = Cardinality(Registered)
       /\ StartedSet = Registered
       /\ \A i, j \in DOMAIN Starts :
            i < j => Before(<<Starts[i].ext, Starts[i].handler>>,
                            <<Starts[j].ext, Starts[j].handler>>)
       /\ Len(invoked) = 2 * Len(Starts)
       /\ \A i \in DOMAIN Starts :
            /\ invoked[2 * i - 1] = Starts[i]
            /\ invoked[2 * i] = [Starts[i] EXCEPT !.what = "end"]
       /\ event.data = [i \in DOMAIN Starts |-> <<Starts[i].ext, Starts[i].handler>>]
  /\ (emit_pc = "idle" /\ returned # NoEvent) => returned = event
\* An emit has returned an uncancelled event that carries the marks of
\* handlers of two extensions, in a session where a handler of another kind
\* is registered as well.
C15_Witness ==
  /\ emit_pc = "idle" /\ returned # NoEvent /\ ~IsCancelled(returned)
  /\ Len(returned.data) > 1
  /\ returned.data[1][1] # returned.data[Len(returned.data)][1]
  /\ \E e \in DOMAIN extensions : \E i \in DOMAIN extensions[e].on :
       extensions[e].on[i].type # returned.type

\* ===================================================================
\* Properties of the stream normalizers
\* ===================================================================
RECURSIVE Flatten(_)
\* The tool-call deltas of a sequence of chat-completions chunks, in order.
Flatten(chunks) ==
  IF chunks = <<>> THEN <<>>
  ELSE (IF Head(chunks).choices THEN Head(chunks).tool_calls ELSE <<>>)
       \o Flatten(Tail(chunks))

\* What the backend has sent about tool calls, in arrival order and in one
\* shape for both backends: stream index, id, name, argument fragment.
Sent ==
  IF provider = "openai"
  THEN LET flat == Flatten(received)
       IN [k \in DOMAIN flat |-> [flat[k] EXCEPT !.index = TcIndex(flat[k])]]
  ELSE LET about == SelectSeq(received, LAMBDA e :
                      \/ e.event = "content_block_start" /\ e.type = "tool_use"
                      \/ e.event = "content_block_delta" /\ e.type = "partial_json")
       IN [k \in DOMAIN about |->
             ToolCallDelta(about[k].index, about[k].id, about[k].name, about[k].delta)]

RECURSIVE Concatenation(_, _)
\* The fragments of index i among deltas, concatenated in arrival order.
Concatenation(deltas, i) ==
  IF deltas = <<>> THEN <<>>
  ELSE (IF Head(deltas).index = i THEN Head(deltas).arguments ELSE <<>>)
       \o Concatenation(Tail(deltas), i)

\* The indices the backend has sent a tool call for.
ToolIndices == {Sent[k].index : k \in DOMAIN Sent}
FirstAt(i) == CHOOSE k \in DOMAIN Sent :
                Sent[k].index = i /\ \A j \in 1..(k - 1) : Sent[j].index # i
StopAt(i) == CHOOSE k \in DOMAIN received :
               received[k].event = "content_block_stop" /\ received[k].index = i
\* The backend has finished the tool call of index i: the chat-completions
\* stream has ended, or the block of i has been stopped.
Complete(i) ==
  IF provider = "openai" THEN stream_pc = "done" ELSE Stopped(i)
Completed == {i \in ToolIndices : Complete(i)}
\* The place of the tool call of a completed index among the tool calls of
\* the response: by first appearance (chat completions), by block stop.
Rank(i) ==
  IF provider = "openai"
  THEN Cardinality({j \in Completed : FirstAt(j) <= FirstAt(i)})
  ELSE Cardinality({j \in Completed : StopAt(j) <= StopAt(i)})
ToolCallEvents == SelectSeq(yielded, LAMBDA e : e.type = "tool_call")
\* The ToolCall yielded for the completed index i.
Emitted(i) == ToolCallEvents[Rank(i)].tool_call

\* The first non-empty value of a field that the backend sent for index i,
\* "" when it sent none.
FirstNonEmpty(i, field) ==
  LET at == {k \in DOMAIN Sent : Sent[k].index = i /\ Sent[k][field] # ""} IN
  IF at = {} THEN ""
  ELSE Sent[CHOOSE k \in at : \A j \in at : k <= j][field]

\* C17: whatever the interleaving of the fragments of several indices, the
\* arguments of the ToolCall yielded for an index are the value of one parse
\* of the concatenation of that index's own fragments, in arrival order.
C17_FragmentsPerIndex ==
  \A i \in Completed :
    /\ Rank(i) <= Len(ToolCallEvents)
    /\ JsonLoads(Concatenation(Sent, i)) # JSONDecodeError
         => Emitted(i).arguments = JsonLoads(Concatenation(Sent, i))
\* The fragments of one index arrived around a fragment of another index
\* and gave an object; the other index's tool call was yielded as well.
C17_Witness ==
  /\ Len(Sent) > 2
  /\ Sent[1].index = Sent[Len(Sent)].index
  /\ \E k \in DOMAIN Sent : Sent[k].index # Sent[1].index /\ Sent[k].arguments # <<>>
  /\ Sent[1].arguments # <<>>
  /\ Completed = Indices
  /\ Emitted(Sent[1].index).arguments = DictArgs

\* C18: every yielded ToolCall has a mapping as its arguments: the empty
\* mapping for blank text and for text that does not parse, and never a
\* value that is no mapping.
C18_ArgumentsAreMapping ==
  /\ \A k \in DOMAIN ToolCallEvents : IsDict(ToolCallEvents[k].tool_call.arguments)
  /\ \A i \in Completed :
       (\/ IsBlank(Concatenation(Sent, i))
        \/ JsonLoads(Concatenation(Sent, i)) = JSONDecodeError)
       => Emitted(i).arguments = EmptyDict

\* C19: one ToolCall per tool-call index, yielded only once the fragments of
\* the index are all consumed, with the first non-empty id and the first
\* non-empty name the backend sent for the index.
C19_FirstIdAndName ==
  /\ Len(ToolCallEvents) = Cardinality(Completed)
  /\ \A i \in Completed :
       /\ FirstNonEmpty(i, "id") # "" => Emitted(i).id = FirstNonEmpty(i, "id")
       /\ FirstNonEmpty(i, "name") # "" => Emitted(i).name = FirstNonEmpty(i, "name")

\* The backend gave a completion signal: a chunk with a finish_reason, a
\* final message with a stop_reason.
Signalled ==
  IF provider = "openai"
  THEN \E k \in DOMAIN received : received[k].choices /\ received[k].finish_reason # ""
  ELSE \E k \in DOMAIN received : received[k].event = "message_stop" /\ received[k].type # ""
FinishAt == {k \in DOMAIN yielded : yielded[k].type = "finish"}

\* C20: a stream that completes without error after the backend gave a
\* completion signal yields exactly one finish event, as its last event; a
\* stream that is still open or that raised has yielded none.
C20_FinishOnceLast ==
  /\ (stream_pc = "done" /\ Signalled) => FinishAt = {Len(yielded)}
  /\ stream_pc # "done" => FinishAt = {}
\* A completed stream of text and a tool call, with a completion signal.
C20_Witness ==
  /\ stream_pc = "done" /\ Signalled
  /\ ToolCallEvents # <<>>
  /\ \E k \in DOMAIN yielded : yielded[k].type = "text_delta"
  /\ yielded[Len(yielded)].type = "finish"

\* The stop reasons the providers' native values are normalized into.
SharedStopReasons == {"stop", "length", "tool_calls", "error"}

\* C21: whatever completion value the backend reports, the finish event of
\* a provider stream carries one of stop, length, tool_calls and error.
C21_SharedStopReasons ==
  \A k \in FinishAt : yielded[k].finish_reason \in SharedStopReasons

\* ===================================================================
\* Properties of the message accumulation
\* ===================================================================
RECURSIVE DeltasOf(_)
\* The deltas of a sequence of stream events, joined in order.
DeltasOf(es) == IF es = <<>> THEN <<>> ELSE Head(es).delta \o DeltasOf(Tail(es))

IsTextDelta(e) == e.type = "text_delta"
IsReasoningDelta(e) == e.type = "reasoning_delta"
\* The text deltas the stream carried, and the reasoning deltas of block id.
TextDeltas == SelectSeq(consumed, IsTextDelta)
ReasoningDeltas(id) ==
  LET OfBlock(e) == IsReasoningDelta(e) /\ ReasoningIdOf(e) = id
  IN SelectSeq(consumed, OfBlock)
\* The block ids the stream carried reasoning for, and where each was first
\* seen.
BlockIds ==
  {ReasoningIdOf(consumed[k]) : k \in {j \in DOMAIN consumed : IsReasoningDelta(consumed[j])}}
FirstSeen(id) ==
  CHOOSE k \in DOMAIN consumed :
    /\ IsReasoningDelta(consumed[k]) /\ ReasoningIdOf(consumed[k]) = id
    /\ \A j \in 1..(k - 1) :
         ~(IsReasoningDelta(consumed[j]) /\ ReasoningIdOf(consumed[j]) = id)

FinishesCarried ==
  {k \in DOMAIN consumed : consumed[k].type = "finish" /\ consumed[k].finish_reason # ""}
CallsReceived ==
  {k \in DOMAIN consumed : consumed[k].type = "tool_call" /\ consumed[k].tool_call # NoToolCall}

\* C23: the stop_reason of a message finalized from a stream that ended is
\* the value of the stream's finish event when one carried a value (the last
\* of them); otherwise it is "tool_calls" when a tool call was received and
\* "stop" when none was.
C23_FinalizedStopReason ==
  collect_pc = "done" =>
    working_message.stop_reason =
      IF FinishesCarried # {}
      THEN consumed[CHOOSE k \in FinishesCarried : \A j \in FinishesCarried : j <= k].finish_reason
      ELSE IF CallsReceived # {} THEN "tool_calls" ELSE "stop"
\* A tool call and a finish event without a value: the reason is inferred.
C23_Witness ==
  /\ collect_pc = "done"
  /\ CallsReceived # {}
  /\ \E k \in DOMAIN consumed : consumed[k] = Finish("")
  /\ FinishesCarried = {}
  /\ working_message.stop_reason = "tool_calls"

\* ===================================================================
\* Properties of the events and the history of a prompt
\* ===================================================================
\* The events yielded while a response streams in.
StreamingUpdates ==
  {"message_update", "reasoning_start", "reasoning_update", "reasoning_end"}

\* The event types that may come right after an event of a type.
Follows(type) ==
  CASE type = "agent_start" -> {"turn_start", "agent_end"}
    [] type = "turn_start" -> {"message_start"}
    [] type = "message_start" -> StreamingUpdates \cup {"message_end"}
    [] type \in StreamingUpdates -> StreamingUpdates \cup {"message_end"}
    [] type = "message_end" -> {"tool_execution_start", "turn_end"}
    [] type = "tool_execution_start" -> {"tool_execution_end"}
    [] type = "tool_execution_end" -> {"tool_execution_start", "turn_end"}
    [] type = "turn_end" -> {"turn_start", "agent_end"}
    [] type = "agent_end" -> {}

\* C24: the events of one prompt() begin with the one AgentStart and, once
\* the prompt is over, end with the one AgentEnd; between them each turn is
\* a TurnStart, a MessageStart, streaming updates, a MessageEnd, the
\* start/end pairs of the tool executions and a TurnEnd, so that no
\* TurnStart or AgentEnd comes before the TurnEnd of the turn before it.
C24_EventGrammar ==
  /\ events # <<>> => events[1].type = "agent_start"
  /\ NumEvents("agent_start") <= 1
  /\ \A k \in 1..(Len(events) - 1) :
       /\ events[k + 1].type \in Follows(events[k].type)
       /\ events[k].type = "tool_execution_start" =>
            events[k + 1].tool_call_id = events[k].tool_call_id
  /\ NumEvents("turn_start") - NumEvents("turn_end") \in {0, 1}
  /\ pc = "done" =>
       /\ events[Len(events)].type = "agent_end"
       /\ NumEvents("agent_end") = 1
       /\ NumEvents("turn_start") = NumEvents("turn_end")
       /\ NumEvents("message_start") = NumEvents("turn_start")
       /\ NumEvents("message_end") = NumEvents("turn_start")
\* A finished prompt of two turns: reasoning, a tool execution, then a
\* provider failure.
C24_Witness ==
  /\ pc = "done"
  /\ NumEvents("turn_start") = 2
  /\ NumEvents("reasoning_end") = 1
  /\ NumEvents("tool_execution_end") = 1
  /\ assistant_message.stop_reason = "error"

\* A message with a text or reasoning block that is not empty.
HasNonEmptyContent(m) ==
  \E k \in DOMAIN m.content :
    m.content[k].type \in {"text", "reasoning"} /\ m.content[k].text # ""
\* A message with a text or reasoning block that is not only white space.
HasVisibleContent(m) ==
  \E k \in DOMAIN m.content :
    m.content[k].type \in {"text", "reasoning"} /\ m.content[k].text \notin {"", " "}

\* C27 as claimed: has_made_progress is false when the first turn starts, is
\* true after any turn's response whose finalized message has non-empty text
\* or reasoning content, and never goes back to false within the prompt.
C27_ProgressOnNonEmpty ==
  [][/\ (pc' = "turn_start" /\ turn' = 0) => ~loop_state'.has_made_progress
     /\ (pc = "stream" /\ HasNonEmptyContent(assistant_message')) =>
          loop_state'.has_made_progress
     /\ (pc # "idle" /\ loop_state.has_made_progress) =>
          loop_state'.has_made_progress]_vars

\* C27: has_made_progress is false when the first turn starts, is true after
\* any turn's response whose finalized message has text or reasoning content
\* that is not only white space, and never goes back to false within the
\* prompt.
C27_ProgressOnVisible ==
  [][/\ (pc' = "turn_start" /\ turn' = 0) => ~loop_state'.has_made_progress
     /\ (pc = "stream" /\ HasVisibleContent(assistant_message')) =>
          loop_state'.has_made_progress
     /\ (pc # "idle" /\ loop_state.has_made_progress) =>
          loop_state'.has_made_progress]_vars
\* A second turn that starts with the progress of the first, which came
\* from reasoning alone.
C27_Witness ==
  /\ pc = "stream"
  /\ turn = 1
  /\ assistant_message.content = <<ReasoningContent("Hmm", DefaultReasoningId)>>
  /\ tool_results # <<>>
  /\ \A k \in DOMAIN tool_results : tool_results[k].is_error
  /\ loop_state.has_made_progress

\* C29: while prompt() runs the history only grows at its end: every step
\* leaves the entries it found in place and unchanged.
C29_HistoryAppendOnly ==
  [][/\ Len(messages') >= Len(messages)
     /\ SubSeq(messages', 1, Len(messages)) = messages]_vars
\* A finished prompt whose history holds the user message, two assistant
\* messages and a tool result.
C29_Witness ==
  /\ pc = "done"
  /\ Len(messages) = 4
  /\ messages[1].role = "user"
  /\ messages[3].role = "tool"
  /\ messages[4].role = "assistant"

\* ===================================================================
\* Properties of the subscribers
\* ===================================================================
Raisers == {i \in DOMAIN subscribers : subscribers[i].raises}
IsUpdate(d) == d.event.type = "tool_execution_update"
IsNoUpdate(d) == ~IsUpdate(d)
\* What subscriber i was called with, the updates left out.
Received(i) == SelectSeq(delivered[i], IsNoUpdate)

\* C25: with a raising callback among the subscribers, each event still
\* reaches every subscriber, those subscribed after the raising one included;
\* each raise is caught and reported; the events yielded to the caller are
\* all there, up to the AgentEnd of a prompt that ran to its end.
C25_RaiseContained ==
  Raisers # {} =>
    /\ \A i, j \in DOMAIN subscribers : delivered[i] = delivered[j]
    /\ \A i \in DOMAIN subscribers :
         /\ Len(Received(i)) = Len(events)
         /\ printed = Cardinality(Raisers) * Len(delivered[i])
    /\ pc = "done" =>
         /\ events[Len(events)].type = "agent_end"
         /\ messages[Len(messages)].role \in {"assistant", "tool"}
\* A finished prompt with a tool execution, watched by a raising callback
\* and one subscribed after it.
C25_Witness ==
  /\ pc = "done"
  /\ Len(subscribers) = 2
  /\ subscribers[1].raises /\ ~subscribers[2].raises
  /\ executed # <<>>
  /\ printed = Len(delivered[2])
  /\ delivered[2][Len(delivered[2])].event.type = "agent_end"

\* C26: a callback subscribed before the prompt is called once with each
\* yielded event, in the order of the yields and each before its yield; what
\* else it is called with are ToolExecutionUpdate events, each of them after
\* the ToolExecutionStart of its call has been yielded and before its
\* ToolExecutionEnd is emitted.
C26_DeliveredInOrder ==
  \A i \in DOMAIN subscribers :
    /\ Len(Received(i)) = Len(events)
    /\ \A k \in DOMAIN events :
         /\ Received(i)[k].event = events[k]
         /\ Received(i)[k].yielded = k - 1
    /\ \A j \in DOMAIN delivered[i] :
         IsUpdate(delivered[i][j]) =>
           LET d == delivered[i][j]
               before == delivered[i][j - 1]
               after == delivered[i][j + 1]
           IN /\ j > 1 /\ j < Len(delivered[i])
              /\ before.event.tool_call_id = d.event.tool_call_id
              /\ before.event.type \in {"tool_execution_start", "tool_execution_update"}
              /\ after.event.tool_call_id = d.event.tool_call_id
              /\ after.event.type \in {"tool_execution_update", "tool_execution_end"}
              /\ events[d.yielded].type = "tool_execution_start"
              /\ events[d.yielded].tool_call_id = d.event.tool_call_id
\* A finished prompt in which a tool called on_update: the subscriber got
\* one event more than the caller.
C26_Witness ==
  /\ pc = "done"
  /\ Len(subscribers) = 1
  /\ Len(delivered[1]) = Len(events) + 1
  /\ \E j \in DOMAIN delivered[1] : IsUpdate(delivered[1][j])

\* ===================================================================
\* Properties of a sequence of prompts
\* ===================================================================
\* The first TurnStart of a prompt() has just been yielded.
AtFirstTurnStart ==
  /\ Len(events) >= 2
  /\ events[Len(events)].type = "turn_start"
  /\ events[Len(events) - 1].type = "agent_start"

\* C28: at the first TurnStart of every prompt() of a sequence the loop
\* state is the fresh one: turn 0, no tool calls counted, no consecutive
\* errors, no progress, however the prompt before it ended.
C28_LoopStateReset ==
  AtFirstTurnStart =>
    /\ loop_state.turn = 0
    /\ loop_state.total_tool_calls = 0
    /\ loop_state.consecutive_errors = 0
    /\ ~loop_state.has_made_progress
\* The first TurnStart of a second prompt, after a prompt whose turn had
\* text and a tool call that failed.
C28_Witness ==
  /\ AtFirstTurnStart
  /\ NumEvents("agent_start") = 2
  /\ NumEvents("turn_end") = 1
  /\ \E k \in DOMAIN messages : messages[k].role = "tool" /\ messages[k].is_error
  /\ \E k \in DOMAIN messages :
       messages[k].role = "assistant" /\ HasOutput(messages[k].content)

\* ===================================================================
\* Properties of the callers
\* ===================================================================
\* The callers whose prompt() run has begun and is not exhausted.
Running == {c \in Callers : runs[c].pc \in {"stream", "tool"}}

\* C30: at most one prompt() run is in progress on the agent at any time,
\* and the history entries of a run are not interleaved with those of
\* another.
C30_OnePromptAtATime ==
  /\ Cardinality(Running) <= 1
  /\ \A i, k \in DOMAIN owners :
       owners[i] = owners[k] => \A j \in i..k : owners[j] = owners[i]

\* ===================================================================
\* Properties of the compaction
\* ===================================================================
UserIdx == {i \in DOMAIN messages : messages[i].role = "user"}
\* The positions of the most recent user messages, up to two of them.
RecentUserIdx == {i \in UserIdx : Cardinality({j \in UserIdx : j > i}) < 2}

\* C31: the result of compact_messages is one summary message followed by
\* an unmodified suffix of the history that holds the most recent user
\* messages, up to two, and everything after them -- for every history,
\* those with fewer than two user messages included.
C31_KeepsRecentTurns ==
  compacted # <<>> =>
    /\ \E summary \in Summaries : compacted[1] = SummaryMessage(summary)
    /\ \E from \in 1..(Len(messages) + 1) :
         /\ Tail(compacted) = SubSeq(messages, from, Len(messages))
         /\ \A i \in RecentUserIdx : from <= i

\* ===================================================================
\* Properties of the tool calls of a turn
\* ===================================================================
ToolMessageIdx == {j \in DOMAIN messages : messages[j].role = "tool"}

\* C32: a turn attempts at most max_tool_calls_per_turn tool calls, the
\* first entries of its assistant message's tool_calls in their order, and
\* none of the entries behind them; after each turn total_tool_calls is the
\* number of ToolResultMessages appended so far.
C32_AttemptsBounded ==
  LET P == TurnPositions IN
  /\ \A k \in 1..Len(P) :
       LET R == ResultsOfTurn(P, k)
           calls == CallsOfTurn(P, k)
       IN /\ Len(R) <= max_tool_calls_per_turn
          /\ Len(R) <= Len(calls)
          /\ \A j \in 1..Len(R) :
               R[j].role = "tool" /\ R[j].tool_call_id = calls[j].id
          /\ TurnClosed(P, k) =>
               Len(R) = Min(Len(calls), max_tool_calls_per_turn)
          /\ \A c \in DOMAIN calls :
               c > max_tool_calls_per_turn =>
                 ExecIdx(calls[c].id) = {} /\ ResultIdx(calls[c].id) = {}
  /\ pc # "tools" => loop_state.total_tool_calls = Cardinality(ToolMessageIdx)
\* A finished prompt of two turns; the first assistant message asked for
\* more tool calls than a turn may attempt.
C32_Witness ==
  /\ pc = "done"
  /\ Len(TurnPositions) >= 2
  /\ Len(CallsOfTurn(TurnPositions, 1)) > max_tool_calls_per_turn
  /\ loop_state.total_tool_calls = 2

\* The positions of the ToolExecutionStart and ToolExecutionEnd events of a
\* tool call id among the yielded events.
StartIdx(id) ==
  {i \in DOMAIN events :
     events[i].type = "tool_execution_start" /\ events[i].tool_call_id = id}
EndIdx(id) ==
  {i \in DOMAIN events :
     events[i].type = "tool_execution_end" /\ events[i].tool_call_id = id}

\* C33: every tool call the loop is through with, whatever its outcome
\* (success, invalid arguments, unknown tool, exception), has exactly one
\* ToolExecutionStart and after it exactly one ToolExecutionEnd with its id,
\* and the end's is_error is the is_error of the call's ToolResultMessage.
C33_StartAndEndPerCall ==
  LET P == TurnPositions IN
  \A k \in 1..Len(P) : \A c \in 1..NumDone(P, k) :
    LET id == CallsOfTurn(P, k)[c].id IN
    /\ Cardinality(StartIdx(id)) = 1
    /\ Cardinality(EndIdx(id)) = 1
    /\ \A i \in StartIdx(id) : \A j \in EndIdx(id) :
         /\ i < j
         /\ \A r \in ResultIdx(id) : events[j].is_error = messages[r].is_error

\* ===================================================================
\* Properties of a turn whose provider stream failed
\* ===================================================================
\* C34: the turn of a provider stream that failed gets the synthetic
\* message with stop_reason "error", has no tool calls and attempts none,
\* and leaves has_made_progress false if it was false before the turn.
C34_ErrorTurnNoProgress ==
  [][(pc = "stream" /\ stream'.fails) =>
       /\ assistant_message'.stop_reason = "error"
       /\ assistant_message'.tool_calls = <<>>
       /\ pc' = "turn_end"
       /\ ~loop_state.has_made_progress => ~loop_state'.has_made_progress]_vars

\* The events of the turn in progress or just over: those from the last
\* TurnStart on.
LastTurnEvents ==
  LET starts == {i \in DOMAIN events : events[i].type = "turn_start"} IN
  IF starts = {} THEN <<>>
  ELSE SubSeq(events, CHOOSE i \in starts : \A j \in starts : j <= i, Len(events))

\* C35: after a provider stream failed, the message appended to the history
\* for the turn holds the error text only -- no block of the text or the
\* reasoning streamed before the failure, none of the tool calls the stream
\* had completed -- and none of those tool calls is executed or answered.
C35_PartialDiscarded ==
  stream.fails =>
    LET last == messages[Len(messages)] IN
    /\ last.role = "assistant"
    /\ last.content = <<TextContent(ErrorText)>>
    /\ \A b \in DOMAIN last.content :
         /\ last.content[b].type # "reasoning"
         /\ last.content[b].text \notin ({stream.text, stream.reasoning} \ {""})
    /\ last.tool_calls = <<>>
    /\ \A c \in DOMAIN stream.tool_calls :
         /\ ExecIdx(stream.tool_calls[c].id) = {}
         /\ ResultIdx(stream.tool_calls[c].id) = {}
    /\ \A i \in DOMAIN LastTurnEvents :
         LastTurnEvents[i].type \notin {"tool_execution_start", "tool_execution_end"}
\* A prompt that ended after a stream failed which had delivered reasoning
\* and text through update events and had completed a tool call.
C35_Witness ==
  /\ stream.fails /\ pc = "done"
  /\ stream.text # "" /\ stream.reasoning # "" /\ stream.tool_calls # <<>>
  /\ \E i, j \in DOMAIN LastTurnEvents :
       /\ LastTurnEvents[i].type = "reasoning_update"
       /\ LastTurnEvents[j].type = "message_update"

\* C36: a tool call of the registered tool whose arguments are a non-empty
\* mapping without a required parameter is handed to execute as it is, once;
\* validate_arguments is not called on the way: no result reports a missing
\* argument.
C36_RequiredNotChecked ==
  LET P == TurnPositions IN
  /\ \A k \in 1..Len(P) : \A c \in 1..NumDone(P, k) :
       LET call == CallsOfTurn(P, k)[c] IN
       (/\ IsDict(call.arguments) /\ Truthy(call.arguments)
        /\ ValidateArguments(call.arguments) # ""
        /\ call.name \in tool_map) =>
         /\ Cardinality(ExecIdx(call.id)) = 1
         /\ \A j \in ExecIdx(call.id) : executed[j].arguments = call.arguments
  /\ \A r \in ToolMessageIdx :
       \A a \in ArgValues :
         ValidateArguments(a) # "" =>
           ValidateArguments(a) \notin Pieces(messages[r].content)
\* The read tool was executed with a mapping that lacks file_path, and
\* returned its result.
C36_Witness ==
  /\ pc = "done"
  /\ \E j \in DOMAIN executed :
       /\ executed[j].name = "read"
       /\ Truthy(executed[j].arguments)
       /\ "file_path" \notin Keys(executed[j].arguments)
       /\ executed[j].outcome = "ok"

\* ===================================================================
\* Properties of the error counter
\* ===================================================================
\* C37: consecutive_errors is never above 3, and when it is n > 0 the n most
\* recent turns that are over each attempted a tool call and got only error
\* results: a turn without tool calls ends the run.
C37_UninterruptedRun ==
  LET P == TurnPositions
      n == loop_state.consecutive_errors
      over == NumEvents("turn_end")
  IN /\ n <= 3
     /\ n > 0 =>
          /\ n <= over
          /\ \A k \in (over - n + 1)..over : TurnFailed(P, k)

\* ===================================================================
\* Properties of subscribing and unsubscribing
\* ===================================================================
CallbacksOf(list) == [i \in DOMAIN list |-> list[i].callback]

\* C38: each callback subscribed when an event is emitted is called with it
\* exactly once, whichever callbacks unsubscribe themselves during the
\* delivery; and a call of an unsubscribe function takes the registration it
\* was returned for, and no other, off the list.
C38_DeliveredDespiteUnsubscribe ==
  [][/\ events' # events =>
          \A i \in DOMAIN subscribers :
            Len(delivered'[subscribers[i].reg]) =
              Len(delivered[subscribers[i].reg]) + 1
     /\ \A h \in DOMAIN unsubscribe :
          Unsubscribe(h) =>
            CallbacksOf(subscribers') =
              CallbacksOf(SelectSeq(subscribers, LAMBDA r : r.reg # h))]_vars

\* ===================================================================
\* Properties of the reasoning events of a turn
\* ===================================================================
\* Where the events of one type and one reasoning block are in message_events.
ReasoningIdx(type, id) ==
  SelectSeq([i \in DOMAIN message_events |-> i],
            LAMBDA i : /\ message_events[i].type = type
                       /\ message_events[i].reasoning_id = id)

\* The ids of the reasoning deltas read so far, each at its first delta.
FirstSeenIds ==
  LET at == SelectSeq([i \in DOMAIN consumed |-> i],
                      LAMBDA i : /\ consumed[i].type = "reasoning_delta"
                                 /\ \A j \in 1..(i - 1) :
                                      consumed[j].type = "reasoning_delta" =>
                                        ReasoningIdOf(consumed[j]) # ReasoningIdOf(consumed[i]))
  IN [k \in DOMAIN at |-> ReasoningIdOf(consumed[at[k]])]

\* The deltas of one reasoning block, concatenated in the order they came.
ReasoningTextOf(id) ==
  LET own == SelectSeq(consumed, LAMBDA e : /\ e.type = "reasoning_delta"
                                            /\ ReasoningIdOf(e) = id)
  IN Join([k \in DOMAIN own |-> own[k].delta])

\* C39: once the turn's MessageEnd is out, every reasoning block seen in the
\* turn has exactly one ReasoningStart, before its first ReasoningUpdate, and
\* exactly one ReasoningEnd, carrying the block's deltas concatenated, after
\* its last update and before the MessageEnd; the ReasoningEnd events come in
\* the order the ids were first seen. This is so whether the stream ended or
\* the provider raised.
C39_ReasoningBracketed ==
  collect_pc \in {"done", "failed"} =>
    LET ends == SelectSeq(message_events, LAMBDA e : e.type = "reasoning_end") IN
    /\ [k \in DOMAIN ends |-> ends[k].reasoning_id] = FirstSeenIds
    /\ \A k \in DOMAIN FirstSeenIds :
         LET id == FirstSeenIds[k]
             starts == ReasoningIdx("reasoning_start", id)
             updates == ReasoningIdx("reasoning_update", id)
             finish == ReasoningIdx("reasoning_end", id)
         IN /\ Len(starts) = 1
            /\ updates # <<>>
            /\ starts[1] < updates[1]
            /\ Len(finish) = 1
            /\ updates[Len(updates)] < finish[1]
            /\ finish[1] < Len(message_events)
            /\ message_events[finish[1]].content = ReasoningTextOf(id)
            /\ message_events[Len(message_events)].type = "message_end"

\* ===================================================================
\* Properties of the message bus
\* ===================================================================
\* How often a callback is in a list of callbacks.
Times(list, callback) == Cardinality({i \in DOMAIN list : list[i] = callback})

\* C40: a dispatch awaits each callback once for each of its subscriptions
\* to the event's kind and to "*", and leaves the subscriber registry and
\* subscriber_count as they were.
C40_DispatchOncePerSubscription ==
  [][DispatchEvent =>
       /\ \A callback \in CallbackNames :
            Times(awaited', callback) =
              Times(Get(subscriptions, Head(queue)), callback)
              + Times(Get(subscriptions, "*"), callback)
       /\ bus_subscribers' = bus_subscribers
       /\ SubscriberCount(bus_subscribers') = SubscriberCount(bus_subscribers)]_vars

====
